---- MODULE Spec2Model ----
(***************************************************************************)
(* E2B_R3 XML triage application (src/app.py): the per-file parsing loop   *)
(* that extracts a case from one report and derives its Validity,          *)
(* Reportability and Listedness.                                           *)
(*                                                                         *)
(* Representation.                                                         *)
(*  - A text value of the program is a TLA+ string; the characters of each *)
(*    text that the program inspects are given by Chars, and every         *)
(*    character-level function of the code (lower, strip, re.sub,          *)
(*    re.search) is computed on those characters.                          *)
(*  - A string the program builds by formatting is a sequence of text      *)
(*    pieces (f"Non-Valid ({r})" is <<"Non-Valid (", r, ")">>).            *)
(*  - A raw date is the number its digits spell (0: no value); a date      *)
(*    object is the number YYYYMMDD (0: None), so that < on date objects   *)
(*    is < on numbers.                                                     *)
(***************************************************************************)
EXTENDS Integers, Sequences, FiniteSets, TLC

VARIABLES
    uploaded_files,     \* the batch of uploaded XML files, in upload order
    listedness_file,    \* the uploaded listedness reference [present, rows]
    listedness_pairs,   \* reference set of (product, llt) pairs
    mapping_df,         \* LLT code/term mapping rows (a set) or "None"
    idx,                \* number of files the loop has consumed
    all_rows_display,   \* the assembled records, in order
    parsed_rows,        \* counter of records created
    errors,             \* indexes of the files st.error reported
    warnings,           \* per-file warning list of the last file
    comments,           \* per-file comment list of the last file
    work                \* the other per-file locals of the last file

vars == <<uploaded_files, listedness_file, listedness_pairs, mapping_df, idx, all_rows_display,
          parsed_rows, errors, warnings, comments, work>>

(***************************************************************************)
(* Bounds of the model.                                                    *)
(***************************************************************************)
MaxDrugs == 2

MaxEvents == 1
\* files of a batch
MaxFiles == 3

(***************************************************************************)
(* Generic helpers.                                                        *)
(***************************************************************************)
Range(s) == {s[i] : i \in 1..Len(s)}

RECURSIVE SeqsUpTo(_, _)
SeqsUpTo(S, n) ==
    IF n = 0 THEN {<<>>}
    ELSE LET R == SeqsUpTo(S, n - 1)
         IN  R \cup {Append(r, x) : r \in {q \in R : Len(q) = n - 1}, x \in S}

RECURSIVE Join(_, _)
\* sep.join(parts), on piece sequences
Join(parts, sep) ==
    IF parts = <<>> THEN <<>>
    ELSE IF Len(parts) = 1 THEN Head(parts)
         ELSE Head(parts) \o <<sep>> \o Join(Tail(parts), sep)

(***************************************************************************)
(* Characters of the texts the model uses.                                 *)
(***************************************************************************)
CharTable ==
    ("" :> <<>>)
 @@ ("celix" :> <<"c", "e", "l", "i", "x">>)
 @@ ("ABIRATERONE 250MG" :> <<"A", "B", "I", "R", "A", "T", "E", "R", "O", "N", "E", " ", "2", "5", "0", "M", "G">>)
 @@ ("Tamsulosin" :> <<"T", "a", "m", "s", "u", "l", "o", "s", "i", "n">>)
 @@ ("Cyanocobalamin inj." :> <<"C", "y", "a", "n", "o", "c", "o", "b", "a", "l", "a", "m", "i", "n", " ", "i", "n", "j", ".">>)
 @@ ("Aspirin" :> <<"A", "s", "p", "i", "r", "i", "n">>)
 @@ ("Dapagliflozin" :> <<"D", "a", "p", "a", "g", "l", "i", "f", "l", "o", "z", "i", "n">>)
 @@ ("Celix Pharma" :> <<"C", "e", "l", "i", "x", " ", "P", "h", "a", "r", "m", "a">>)
 @@ ("Cipla" :> <<"C", "i", "p", "l", "a">>)
 @@ ("Unknown" :> <<"U", "n", "k", "n", "o", "w", "n">>)
 @@ ("unknown" :> <<"u", "n", "k", "n", "o", "w", "n">>)
 @@ ("unk" :> <<"u", "n", "k">>)
 @@ ("asku" :> <<"a", "s", "k", "u">>)
 @@ ("Male" :> <<"M", "a", "l", "e">>)
 @@ ("Female" :> <<"F", "e", "m", "a", "l", "e">>)
 @@ ("Masked" :> <<"M", "a", "s", "k", "e", "d">>)
 @@ ("L1" :> <<"L", "1">>)
 @@ ("abiraterone" :> <<"a", "b", "i", "r", "a", "t", "e", "r", "o", "n", "e">>)
 @@ ("apixaban" :> <<"a", "p", "i", "x", "a", "b", "a", "n">>)
 @@ ("apremilast" :> <<"a", "p", "r", "e", "m", "i", "l", "a", "s", "t">>)
 @@ ("bexarotene" :> <<"b", "e", "x", "a", "r", "o", "t", "e", "n", "e">>)
 @@ ("clobazam" :> <<"c", "l", "o", "b", "a", "z", "a", "m">>)
 @@ ("clonazepam" :> <<"c", "l", "o", "n", "a", "z", "e", "p", "a", "m">>)
 @@ ("cyanocobalamin" :> <<"c", "y", "a", "n", "o", "c", "o", "b", "a", "l", "a", "m", "i", "n">>)
 @@ ("dabigatran" :> <<"d", "a", "b", "i", "g", "a", "t", "r", "a", "n">>)
 @@ ("dapagliflozin" :> <<"d", "a", "p", "a", "g", "l", "i", "f", "l", "o", "z", "i", "n">>)
 @@ ("dimethyl fumarate" :> <<"d", "i", "m", "e", "t", "h", "y", "l", " ", "f", "u", "m", "a", "r", "a", "t", "e">>)
 @@ ("famotidine" :> <<"f", "a", "m", "o", "t", "i", "d", "i", "n", "e">>)
 @@ ("fesoterodine" :> <<"f", "e", "s", "o", "t", "e", "r", "o", "d", "i", "n", "e">>)
 @@ ("icatibant" :> <<"i", "c", "a", "t", "i", "b", "a", "n", "t">>)
 @@ ("itraconazole" :> <<"i", "t", "r", "a", "c", "o", "n", "a", "z", "o", "l", "e">>)
 @@ ("linagliptin" :> <<"l", "i", "n", "a", "g", "l", "i", "p", "t", "i", "n">>)
 @@ ("linagliptin + metformin" :> <<"l", "i", "n", "a", "g", "l", "i", "p", "t", "i", "n", " ", "+", " ", "m", "e", "t", "f", "o", "r", "m", "i", "n">>)
 @@ ("nintedanib" :> <<"n", "i", "n", "t", "e", "d", "a", "n", "i", "b">>)
 @@ ("pirfenidone" :> <<"p", "i", "r", "f", "e", "n", "i", "d", "o", "n", "e">>)
 @@ ("raltegravir" :> <<"r", "a", "l", "t", "e", "g", "r", "a", "v", "i", "r">>)
 @@ ("ranolazine" :> <<"r", "a", "n", "o", "l", "a", "z", "i", "n", "e">>)
 @@ ("rivaroxaban" :> <<"r", "i", "v", "a", "r", "o", "x", "a", "b", "a", "n">>)
 @@ ("saxagliptin" :> <<"s", "a", "x", "a", "g", "l", "i", "p", "t", "i", "n">>)
 @@ ("sitagliptin" :> <<"s", "i", "t", "a", "g", "l", "i", "p", "t", "i", "n">>)
 @@ ("tamsulosin + solifenacin" :> <<"t", "a", "m", "s", "u", "l", "o", "s", "i", "n", " ", "+", " ", "s", "o", "l", "i", "f", "e", "n", "a", "c", "i", "n">>)
 @@ ("tapentadol" :> <<"t", "a", "p", "e", "n", "t", "a", "d", "o", "l">>)
 @@ ("ticagrelor" :> <<"t", "i", "c", "a", "g", "r", "e", "l", "o", "r">>)
 @@ ("tamsulosin" :> <<"t", "a", "m", "s", "u", "l", "o", "s", "i", "n">>)
 @@ ("solifenacin" :> <<"s", "o", "l", "i", "f", "e", "n", "a", "c", "i", "n">>)
 @@ ("cyclogest" :> <<"c", "y", "c", "l", "o", "g", "e", "s", "t">>)
 @@ ("progesterone" :> <<"p", "r", "o", "g", "e", "s", "t", "e", "r", "o", "n", "e">>)
 @@ ("luteum" :> <<"l", "u", "t", "e", "u", "m">>)
 @@ ("amelgen" :> <<"a", "m", "e", "l", "g", "e", "n">>)
 @@ ("Non-Valid" :> <<"N", "o", "n", "-", "V", "a", "l", "i", "d">>)
 @@ ("Non-Valid (" :> <<"N", "o", "n", "-", "V", "a", "l", "i", "d", " ", "(">>)
 @@ ("Valid" :> <<"V", "a", "l", "i", "d">>)
 @@ ("Kindly check comment and assess validity manually" :> <<"K", "i", "n", "d", "l", "y", " ", "c", "h", "e", "c", "k", " ", "c", "o", "m", "m", "e", "n", "t", " ", "a", "n", "d", " ", "a", "s", "s", "e", "s", "s", " ", "v", "a", "l", "i", "d", "i", "t", "y", " ", "m", "a", "n", "u", "a", "l", "l", "y">>)
 @@ ("Headache" :> <<"H", "e", "a", "d", "a", "c", "h", "e">>)
 @@ ("headache" :> <<"h", "e", "a", "d", "a", "c", "h", "e">>)
 @@ ("Nausea" :> <<"N", "a", "u", "s", "e", "a">>)
 @@ ("nausea" :> <<"n", "a", "u", "s", "e", "a">>)
 @@ ("10019211" :> <<"1", "0", "0", "1", "9", "2", "1", "1">>)
 @@ ("10028813" :> <<"1", "0", "0", "2", "8", "8", "1", "3">>)
 @@ ("JD" :> <<"J", "D">>)
 @@ ("Adult" :> <<"A", "d", "u", "l", "t">>)
 @@ ("[Masked/Unknown]" :> <<"[", "M", "a", "s", "k", "e", "d", "/", "U", "n", "k", "n", "o", "w", "n", "]">>)
 @@ ("34" :> <<"3", "4">>)
 @@ ("70" :> <<"7", "0">>)
 @@ ("PRN-1" :> <<"P", "R", "N", "-", "1">>)
 @@ ("glenmark" :> <<"g", "l", "e", "n", "m", "a", "r", "k">>)
 @@ ("cipla" :> <<"c", "i", "p", "l", "a">>)
 @@ ("sun pharma" :> <<"s", "u", "n", " ", "p", "h", "a", "r", "m", "a">>)
 @@ ("dr reddy" :> <<"d", "r", " ", "r", "e", "d", "d", "y">>)
 @@ ("dr. reddy" :> <<"d", "r", ".", " ", "r", "e", "d", "d", "y">>)
 @@ ("torrent" :> <<"t", "o", "r", "r", "e", "n", "t">>)
 @@ ("lupin" :> <<"l", "u", "p", "i", "n">>)
 @@ ("intas" :> <<"i", "n", "t", "a", "s">>)
 @@ ("mankind" :> <<"m", "a", "n", "k", "i", "n", "d">>)
 @@ ("micro labs" :> <<"m", "i", "c", "r", "o", " ", "l", "a", "b", "s">>)
 @@ ("zydus" :> <<"z", "y", "d", "u", "s">>)
 @@ ("CIPLA-77" :> <<"C", "I", "P", "L", "A", "-", "7", "7">>)
 @@ ("Unknown product" :> <<"U", "n", "k", "n", "o", "w", "n", " ", "p", "r", "o", "d", "u", "c", "t">>)
 @@ ("PL 12345/6789" :> <<"P", "L", " ", "1", "2", "3", "4", "5", "/", "6", "7", "8", "9">>)
 @@ ("plgb12345 / 01234" :> <<"p", "l", "g", "b", "1", "2", "3", "4", "5", " ", "/", " ", "0", "1", "2", "3", "4">>)
 @@ ("PL 12345/678" :> <<"P", "L", " ", "1", "2", "3", "4", "5", "/", "6", "7", "8">>)
 @@ ("Tamsulosin PL 12345/6789" :> <<"T", "a", "m", "s", "u", "l", "o", "s", "i", "n", " ", "P", "L", " ", "1", "2", "3", "4", "5", "/", "6", "7", "8", "9">>)
 @@ ("PL" :> <<"P", "L">>)
 @@ ("PLGB" :> <<"P", "L", "G", "B">>)
 @@ ("PLNI" :> <<"P", "L", "N", "I">>)
 @@ ("12345" :> <<"1", "2", "3", "4", "5">>)
 @@ ("6789" :> <<"6", "7", "8", "9">>)
 @@ ("01234" :> <<"0", "1", "2", "3", "4">>)
 @@ ("UNK" :> <<"U", "N", "K">>)
 @@ ("45" :> <<"4", "5">>)
 @@ ("170" :> <<"1", "7", "0">>)
 @@ (" asku " :> <<" ", "a", "s", "k", "u", " ">>)
 @@ ("Tamsulosin  HCl" :> <<"T", "a", "m", "s", "u", "l", "o", "s", "i", "n", " ", " ", "H", "C", "l">>)
 @@ ("TAMSULOSIN+SOLIFENACIN" :> <<"T", "A", "M", "S", "U", "L", "O", "S", "I", "N", "+", "S", "O", "L", "I", "F", "E", "N", "A", "C", "I", "N">>)
 @@ ("Tamsulosin + Solifenacin" :> <<"T", "a", "m", "s", "u", "l", "o", "s", "i", "n", " ", "+", " ", "S", "o", "l", "i", "f", "e", "n", "a", "c", "i", "n">>)
 @@ ("Linagliptin/Metformin" :> <<"L", "i", "n", "a", "g", "l", "i", "p", "t", "i", "n", "/", "M", "e", "t", "f", "o", "r", "m", "i", "n">>)
 @@ ("Dimethyl-Fumarate" :> <<"D", "i", "m", "e", "t", "h", "y", "l", "-", "F", "u", "m", "a", "r", "a", "t", "e">>)
 @@ ("Dimethyl  Fumarate (DMF)" :> <<"D", "i", "m", "e", "t", "h", "y", "l", " ", " ", "F", "u", "m", "a", "r", "a", "t", "e", " ", "(", "D", "M", "F", ")">>)
 @@ ("Luteumax" :> <<"L", "u", "t", "e", "u", "m", "a", "x">>)
 @@ ("pre-luteum" :> <<"p", "r", "e", "-", "l", "u", "t", "e", "u", "m">>)
 @@ ("Apixaban(R)" :> <<"A", "p", "i", "x", "a", "b", "a", "n", "(", "R", ")">>)
 @@ ("tapentadol_er" :> <<"t", "a", "p", "e", "n", "t", "a", "d", "o", "l", "_", "e", "r">>)
 @@ ("Cyclogest 400mg pessaries" :> <<"C", "y", "c", "l", "o", "g", "e", "s", "t", " ", "4", "0", "0", "m", "g", " ", "p", "e", "s", "s", "a", "r", "i", "e", "s">>)

Chars(s) == CharTable[s]

UpperLetters == <<"A","B","C","D","E","F","G","H","I","J","K","L","M",
                  "N","O","P","Q","R","S","T","U","V","W","X","Y","Z">>

LowerLetters == <<"a","b","c","d","e","f","g","h","i","j","k","l","m",
                  "n","o","p","q","r","s","t","u","v","w","x","y","z">>

DigitChars == {"0","1","2","3","4","5","6","7","8","9"}

\* str.lower() on one character
LowerChar(c) ==
    IF \E i \in 1..Len(UpperLetters) : UpperLetters[i] = c
    THEN LowerLetters[CHOOSE i \in 1..Len(UpperLetters) : UpperLetters[i] = c]
    ELSE c

Lower(cs) == [i \in 1..Len(cs) |-> LowerChar(cs[i])]

IsSpace(c) == c \in {" ", "\t", "\n"}

\* \w of the re module, on the characters of the model
IsWordChar(c) == c \in Range(LowerLetters) \cup Range(UpperLetters) \cup DigitChars \cup {"_"}

RECURSIVE LStrip(_)
LStrip(cs) == IF cs # <<>> /\ IsSpace(Head(cs)) THEN LStrip(Tail(cs)) ELSE cs

RECURSIVE RStrip(_)
RStrip(cs) ==
    IF cs # <<>> /\ IsSpace(cs[Len(cs)]) THEN RStrip(SubSeq(cs, 1, Len(cs) - 1)) ELSE cs

Strip(cs) == RStrip(LStrip(cs))

\* a in b, on characters
Contains(b, a) ==
    \E i \in 1..(Len(b) - Len(a) + 1) : SubSeq(b, i, i + Len(a) - 1) = a

(***************************************************************************)
(* src/app.py 111-128: unknown-token filter and text normalization.        *)
(***************************************************************************)
UNKNOWN_TOKENS == {"unk", "asku", "unknown"}

is_unknown(value) ==
    LET v == Strip(Chars(value))
    IN  IF v = <<>> THEN TRUE
        ELSE \E t \in UNKNOWN_TOKENS : Lower(v) = Chars(t)

clean_value(value) == IF is_unknown(value) THEN "" ELSE value

\* re.sub(r'[^a-z0-9\s\+\-]', ' ', s)
SubDisallowed(cs) ==
    [i \in 1..Len(cs) |->
        IF cs[i] \in Range(LowerLetters) \cup DigitChars \cup {"+", "-"} \/ IsSpace(cs[i])
        THEN cs[i] ELSE " "]

RECURSIVE CollapseSpaces(_)
\* re.sub(r'\s+', ' ', s)
CollapseSpaces(cs) ==
    IF cs = <<>> THEN <<>>
    ELSE IF IsSpace(Head(cs))
         THEN <<" ">> \o CollapseSpaces(LStrip(cs))
         ELSE <<Head(cs)>> \o CollapseSpaces(Tail(cs))

\* normalize_text that strips before it substitutes and collapses
normalize_text_StripFirst(cs) == CollapseSpaces(SubDisallowed(Lower(Strip(cs))))

\* normalize_text, from characters to characters
normalize_text(cs) == Strip(CollapseSpaces(SubDisallowed(Lower(cs))))

(***************************************************************************)
(* src/app.py 178-191: product vocabulary and category 2 set.              *)
(***************************************************************************)
company_products == <<
    "abiraterone", "apixaban", "apremilast", "bexarotene", "clobazam", "clonazepam",
    "cyanocobalamin", "dabigatran", "dapagliflozin", "dimethyl fumarate", "famotidine",
    "fesoterodine", "icatibant", "itraconazole", "linagliptin", "linagliptin + metformin",
    "nintedanib", "pirfenidone", "raltegravir", "ranolazine", "rivaroxaban", "saxagliptin",
    "sitagliptin", "tamsulosin + solifenacin", "tapentadol", "ticagrelor", "tamsulosin",
    "solifenacin", "cyclogest", "progesterone", "luteum", "amelgen" >>

category2_products == {
    "clobazam", "clonazepam", "cyanocobalamin", "famotidine", "itraconazole",
    "tamsulosin", "solifenacin", "tapentadol", "cyclogest", "progesterone",
    "luteum", "amelgen" }

MY_COMPANY_NAME == "celix"

\* re.search(r'\b' + re.escape(pnorm) + r'\b', norm)
WordBoundaryAt(cs, i) ==
    \* between cs[i] and cs[i+1]; outside the text counts as a non-word character
    LET left  == IF i >= 1 /\ i <= Len(cs) THEN IsWordChar(cs[i]) ELSE FALSE
        right == IF i + 1 >= 1 /\ i + 1 <= Len(cs) THEN IsWordChar(cs[i + 1]) ELSE FALSE
    IN  left # right

SearchWholeWord(pnorm, norm) ==
    \E i \in 1..(Len(norm) - Len(pnorm) + 1) :
        /\ SubSeq(norm, i, i + Len(pnorm) - 1) = pnorm
        /\ WordBoundaryAt(norm, i - 1)
        /\ WordBoundaryAt(norm, i + Len(pnorm) - 1)

RECURSIVE FirstMatch(_, _)
FirstMatch(norm, products) ==
    IF products = <<>> THEN ""
    ELSE LET pnorm == normalize_text(Chars(Head(products)))
         IN  IF pnorm # <<>> /\ SearchWholeWord(pnorm, norm)
             THEN Head(products)
             ELSE FirstMatch(norm, Tail(products))

contains_company_product(text, products) == FirstMatch(normalize_text(Chars(text)), products)

\* the membership test "key in table" of a dict or set keyed by text, for a
\* key given by its characters
KeyIn(cs, keys) == \E k \in keys : Chars(k) = cs

KeyOf(cs, keys) == CHOOSE k \in keys : Chars(k) = cs


TextOf(cs) == CHOOSE s \in DOMAIN CharTable : CharTable[s] = cs

(***************************************************************************)
(* src/app.py 149-161: licence numbers.  PL_PATTERN is                     *)
(*   \b(PL|PLGB|PLNI)\s*([0-9]{5})\s*/\s*([0-9]{4,5})\b  (IGNORECASE).     *)
(***************************************************************************)
UpperChar(c) ==
    IF \E i \in 1..Len(LowerLetters) : LowerLetters[i] = c
    THEN UpperLetters[CHOOSE i \in 1..Len(LowerLetters) : LowerLetters[i] = c]
    ELSE c

Upper(cs) == [i \in 1..Len(cs) |-> UpperChar(cs[i])]

\* the position after \s* matched from position i
RECURSIVE SkipSpaces(_, _)
SkipSpaces(cs, i) == IF i <= Len(cs) /\ IsSpace(cs[i]) THEN SkipSpaces(cs, i + 1) ELSE i

\* n digits at positions i .. i+n-1
DigitsAt(cs, i, n) == i + n - 1 <= Len(cs) /\ \A k \in i..(i + n - 1) : cs[k] \in DigitChars

\* the length of ([0-9]{4,5})\b at position e: 5 before 4, 0 when neither
ProductCodeLen(cs, e) ==
    IF DigitsAt(cs, e, 5) /\ WordBoundaryAt(cs, e + 4) THEN 5
    ELSE IF DigitsAt(cs, e, 4) /\ WordBoundaryAt(cs, e + 3) THEN 4 ELSE 0

\* the match of the pattern with the given prefix at position i, as the
\* positions <<company code, product code, length of the product code>>;
\* <<>> when there is none
PLMatchWith(cs, i, prefix, b) ==
    IF /\ WordBoundaryAt(cs, i - 1)
       /\ i + Len(prefix) - 1 <= Len(cs)
       /\ Upper(SubSeq(cs, i, i + Len(prefix) - 1)) = prefix
       /\ DigitsAt(cs, b, 5)
       /\ SkipSpaces(cs, b + 5) <= Len(cs)
       /\ cs[SkipSpaces(cs, b + 5)] = "/"
       /\ ProductCodeLen(cs, SkipSpaces(cs, SkipSpaces(cs, b + 5) + 1)) > 0
    THEN <<b, SkipSpaces(cs, SkipSpaces(cs, b + 5) + 1),
           ProductCodeLen(cs, SkipSpaces(cs, SkipSpaces(cs, b + 5) + 1))>>
    ELSE <<>>

PLMatchAt(cs, i, prefix) == PLMatchWith(cs, i, prefix, SkipSpaces(cs, i + Len(prefix)))

\* f"{prefix} {company_code}/{product_code}" of the match at i, as pieces
PLNumberAt(cs, i, prefix) ==
    <<TextOf(prefix), " ",
      TextOf(SubSeq(cs, PLMatchAt(cs, i, prefix)[1], PLMatchAt(cs, i, prefix)[1] + 4)), "/",
      TextOf(SubSeq(cs, PLMatchAt(cs, i, prefix)[2],
                    PLMatchAt(cs, i, prefix)[2] + PLMatchAt(cs, i, prefix)[3] - 1))>>

\* the alternatives of the prefix, in the order the pattern tries them
PLPrefixes == << <<"P", "L">>, <<"P", "L", "G", "B">>, <<"P", "L", "N", "I">> >>

\* the licence numbers found at position i (at most one)
PLNumbersAt(cs, i) ==
    IF PLMatchAt(cs, i, PLPrefixes[1]) # <<>> THEN <<PLNumberAt(cs, i, PLPrefixes[1])>>
    ELSE IF PLMatchAt(cs, i, PLPrefixes[2]) # <<>> THEN <<PLNumberAt(cs, i, PLPrefixes[2])>>
    ELSE IF PLMatchAt(cs, i, PLPrefixes[3]) # <<>> THEN <<PLNumberAt(cs, i, PLPrefixes[3])>>
    ELSE <<>>

RECURSIVE PLNumbersFrom(_, _)
PLNumbersFrom(cs, i) ==
    IF i > Len(cs) THEN <<>> ELSE PLNumbersAt(cs, i) \o PLNumbersFrom(cs, i + 1)

extract_pl_numbers(text) == IF text = "" THEN <<>> ELSE PLNumbersFrom(Chars(text), 1)

(***************************************************************************)
(* src/app.py 38-79: dates.  A raw date is the number spelled by the       *)
(* digits _digits_only keeps; a date object is YYYYMMDD, None is 0.        *)
(***************************************************************************)
RECURSIVE NumDigits(_)
\* len(digits)
NumDigits(n) == IF n < 10 THEN 1 ELSE 1 + NumDigits(n \div 10)

RECURSIVE FirstDigits(_, _)
\* int(digits[:k]), for k <= len(digits)
FirstDigits(n, k) == IF NumDigits(n) <= k THEN n ELSE FirstDigits(n \div 10, k)

\* calendar.isleap
isleap(y) == y % 4 = 0 /\ (y % 100 # 0 \/ y % 400 = 0)

\* monthrange that knows no leap year
monthrange_NoLeap(y, m) == IF m = 2 THEN 28 ELSE IF m \in {4, 6, 9, 11} THEN 30 ELSE 31

\* calendar.monthrange(year, month)[1]
monthrange(y, m) ==
    IF m = 2 THEN (IF isleap(y) THEN 29 ELSE 28)
    ELSE IF m \in {4, 6, 9, 11} THEN 30 ELSE 31

parse_date_obj(raw) ==
    IF raw = 0 THEN 0
    ELSE IF NumDigits(raw) >= 8
         THEN LET d8 == FirstDigits(raw, 8)
                  y  == d8 \div 10000
                  m  == (d8 \div 100) % 100
                  d  == d8 % 100
              IN  IF y >= 1 /\ m \in 1..12 /\ d >= 1 /\ d <= monthrange(y, m)
                  THEN d8 ELSE 0
    ELSE IF NumDigits(raw) >= 6
         THEN LET d6 == FirstDigits(raw, 6)
                  y  == d6 \div 100
                  m  == d6 % 100
              IN  IF y >= 1 /\ m \in 1..12
                  THEN y * 10000 + m * 100 + monthrange(y, m) ELSE 0
    ELSE IF NumDigits(raw) >= 4
         THEN LET y == FirstDigits(raw, 4)
              IN  IF y >= 1 THEN y * 10000 + 1231 ELSE 0
    ELSE 0

\* strftime("%b")
MonthAbbr == <<"Jan", "Feb", "Mar", "Apr", "May", "Jun", "Jul", "Aug", "Sep", "Oct", "Nov", "Dec">>

\* strftime("%d")
TwoDigits(d) == IF d < 10 THEN "0" \o ToString(d) ELSE ToString(d)

\* lines 41-59: the display string as pieces, <<>> standing for ""
format_date(raw) ==
    IF raw = 0 THEN <<>>
    ELSE IF NumDigits(raw) >= 8
         THEN LET d8 == FirstDigits(raw, 8)
                  y  == d8 \div 10000
                  m  == (d8 \div 100) % 100
                  d  == d8 % 100
              IN  IF y >= 1 /\ m \in 1..12 /\ d >= 1 /\ d <= monthrange(y, m)
                  THEN <<TwoDigits(d), "-", MonthAbbr[m], "-", ToString(y)>> ELSE <<>>
    ELSE IF NumDigits(raw) >= 6
         THEN LET d6 == FirstDigits(raw, 6)
                  y  == d6 \div 100
                  m  == d6 % 100
              IN  IF y >= 1 /\ m \in 1..12
                  THEN <<MonthAbbr[m], "-", ToString(y)>> ELSE <<>>
    ELSE IF NumDigits(raw) >= 4
         THEN <<ToString(FirstDigits(raw, 4))>>
    ELSE <<>>

(***************************************************************************)
(* src/app.py 196-257: launch registry.  An entry is <<status, payload>>;  *)
(* the payload is a date, 0 for None, or for "launched_by_strength" a      *)
(* function from the strength in tenths of a mg to a date.                 *)
(***************************************************************************)
LAUNCH_INFO ==
    ("abiraterone" :> <<"launched", 20220908>>)
 @@ ("apixaban" :> <<"launched", 20250226>>)
 @@ ("apremilast" :> <<"yet", 0>>)
 @@ ("bexarotene" :> <<"launched", 20230119>>)
 @@ ("clobazam" :> <<"launched", 20240926>>)
 @@ ("clonazepam" :> <<"launched", 20250120>>)
 @@ ("cyanocobalamin" :> <<"awaited", 0>>)
 @@ ("dabigatran" :> <<"yet", 0>>)
 @@ ("dapagliflozin" :> <<"launched_by_strength", (100 :> 20250826) @@ (50 :> 20250910)>>)
 @@ ("dimethyl fumarate" :> <<"launched", 20240205>>)
 @@ ("famotidine" :> <<"launched", 20250221>>)
 @@ ("fesoterodine" :> <<"yet", 0>>)
 @@ ("icatibant" :> <<"launched", 20220728>>)
 @@ ("itraconazole" :> <<"awaited", 0>>)
 @@ ("linagliptin" :> <<"yet", 0>>)
 @@ ("linagliptin + metformin" :> <<"awaited", 0>>)
 @@ ("nintedanib" :> <<"awaited", 0>>)
 @@ ("pirfenidone" :> <<"launched", 20220629>>)
 @@ ("raltegravir" :> <<"awaited", 0>>)
 @@ ("ranolazine" :> <<"launched", 20230720>>)
 @@ ("rivaroxaban" :> <<"launched_by_strength",
        (25 :> 20240402) @@ (100 :> 20240523) @@ (150 :> 20240523) @@ (200 :> 20240523)>>)
 @@ ("saxagliptin" :> <<"yet", 0>>)
 @@ ("sitagliptin" :> <<"yet", 0>>)
 @@ ("tamsulosin + solifenacin" :> <<"launched", 20230508>>)
 @@ ("tamsulosin" :> <<"launched", 20230508>>)
 @@ ("solifenacin" :> <<"launched", 20230508>>)
 @@ ("tapentadol" :> <<"launched", 20240201>>)
 @@ ("ticagrelor" :> <<"yet", 0>>)
 @@ ("cyclogest" :> <<"launched", 0>>)
 @@ ("progesterone" :> <<"launched", 0>>)
 @@ ("luteum" :> <<"launched", 0>>)
 @@ ("amelgen" :> <<"launched", 0>>)

\* MinValue taking the latest tier instead of the earliest
MinValue_Latest(payload) ==
    CHOOSE v \in {payload[k] : k \in DOMAIN payload} :
        \A k \in DOMAIN payload : v >= payload[k]

\* min(payload.values())
MinValue(payload) ==
    CHOOSE v \in {payload[k] : k \in DOMAIN payload} :
        \A k \in DOMAIN payload : v <= payload[k]

\* strength_mg is a strength in tenths of a mg, or -1 for None
get_launch_date(product_name, strength_mg) ==
    LET key == normalize_text(Chars(product_name))
    IN  IF ~KeyIn(key, DOMAIN LAUNCH_INFO) THEN 0
        ELSE LET info    == LAUNCH_INFO[KeyOf(key, DOMAIN LAUNCH_INFO)]
                 status  == info[1]
                 payload == info[2]
             IN  IF status = "launched" THEN payload
                 ELSE IF status = "launched_by_strength"
                      THEN IF strength_mg # -1
                           THEN (IF strength_mg \in DOMAIN payload
                                 THEN payload[strength_mg] ELSE 0)
                           ELSE MinValue(payload)
                      ELSE 0

\* None is "None"
get_launch_status(product_name) ==
    LET key == normalize_text(Chars(product_name))
    IN  IF ~KeyIn(key, DOMAIN LAUNCH_INFO) THEN "None"
        ELSE LAUNCH_INFO[KeyOf(key, DOMAIN LAUNCH_INFO)][1]


(***************************************************************************)
(* The text functions, tabulated over the texts of the model.              *)
(***************************************************************************)
Texts == DOMAIN CharTable

CleanValueOf == [t \in Texts |-> clean_value(t)]

\* the texts the model normalizes: product names, drug names and event terms
NormalizedTexts ==
    Range(company_products)
    \cup {"", "Headache", "Nausea", "Tamsulosin", "ABIRATERONE 250MG", "10019211", "10028813"}

NormalizedOf ==
    [t \in NormalizedTexts |->
        LET cs == normalize_text(Chars(t))
        IN  IF \E x \in Texts : Chars(x) = cs THEN TextOf(cs) ELSE "?"]

(***************************************************************************)
(* The report document.  A file is a record                                *)
(*   wellformed     whether ET.parse succeeds                              *)
(*   gender_code    code of administrativeGenderCode ("" when absent)      *)
(*   initials       patient initials as extracted, before clean_value      *)
(*   age_group      age group as extracted, before clean_value             *)
(*   age_val, height_val, weight_val   value attributes ("" when absent)   *)
(*   record_nf, record_ext   nullFlavor and extension of the record id     *)
(*   creationTime, availabilityTime    raw dates                           *)
(*   headLow        raw value of the effectiveTime/low that precedes the   *)
(*                  first availabilityTime                                 *)
(*   causality      causalityAssessment nodes [code, ref]                  *)
(*   drugs          substanceAdministration nodes                          *)
(*                  [id, name, low, high, mah, lot]                        *)
(*   reactions      reaction observations                                  *)
(*                  [code, displayName, criteria, low, high]               *)
(* Document order: headLow, availabilityTime, reactions, drugs.            *)
(***************************************************************************)
map_gender(code) ==
    IF code = "1" THEN "Male" ELSE IF code = "2" THEN "Female" ELSE "Unknown"

patient_initials(f) == CleanValueOf[f.initials]

gender(f) == CleanValueOf[map_gender(f.gender_code)]

age_group(f) == CleanValueOf[f.age_group]

age(f) == CleanValueOf[f.age_val]

height(f) == CleanValueOf[f.height_val]

weight(f) == CleanValueOf[f.weight_val]

patient_record_no(f) ==
    IF f.record_nf = "MSK" THEN "Masked"
    ELSE IF f.record_ext # "" THEN f.record_ext ELSE ""

\* ", ".join(patient_parts), as pieces
patient_detail(f) ==
    Join(  (IF patient_initials(f) # "" THEN << <<"Initials: ", patient_initials(f)>> >> ELSE <<>>)
        \o (IF gender(f) # "" THEN << <<"Gender: ", gender(f)>> >> ELSE <<>>)
        \o (IF age_group(f) # "" THEN << <<"Age Group: ", age_group(f)>> >> ELSE <<>>)
        \o (IF age(f) # "" THEN << <<"Age: ", age(f)>> >> ELSE <<>>)
        \o (IF height(f) # "" THEN << <<"Height: ", height(f)>> >> ELSE <<>>)
        \o (IF weight(f) # "" THEN << <<"Weight: ", weight(f)>> >> ELSE <<>>)
        \o (IF patient_record_no(f) # ""
            THEN << <<"Record No: ", patient_record_no(f)>> >> ELSE <<>>),
        ", ")

\* line 450
has_any_patient_detail(f) ==
    \E v \in {patient_initials(f), gender(f), age_group(f), age(f), height(f), weight(f)} :
        v # ""

\* roots of the drugs that a causalityAssessment with value code 1 refers to
suspect_ids(f) ==
    LET sus == SelectSeq(f.causality, LAMBDA c : c.code = "1")
    IN  [i \in 1..Len(sus) |-> sus[i].ref]

SuspectDrugs(f) == SelectSeq(f.drugs, LAMBDA d : d.id \in Range(suspect_ids(f)))

(***************************************************************************)
(* src/app.py 163-176, 471-618: the suspect drug loop.  D is the sequence  *)
(* of the suspect drugs that match a company product (the drugs the case   *)
(* displays), in document order.                                           *)
(***************************************************************************)
DEFAULT_COMPETITOR_NAMES == {"glenmark", "cipla", "sun pharma", "dr reddy", "dr. reddy",
                             "torrent", "lupin", "intas", "mankind", "micro labs", "zydus"}

contains_competitor_name(lot_text, competitor_names) ==
    IF lot_text = "" THEN FALSE
    ELSE LET norm == Lower(Chars(lot_text))
         IN  IF Contains(norm, Lower(Chars(MY_COMPANY_NAME))) THEN FALSE
             ELSE \E name \in competitor_names :
                     LET nm == Strip(Lower(Chars(name)))
                     IN  nm # <<>> /\ Contains(norm, nm)

\* MY_COMPANY_NAME.lower() not in name.lower()
NotCompanyName(name) == ~Contains(Lower(Chars(name)), Lower(Chars(MY_COMPANY_NAME)))

\* re.search(r'[A-Za-z0-9]', lot_clean)
HasAlnum(text) ==
    \E c \in Range(Chars(text)) :
        c \in Range(LowerLetters) \cup Range(UpperLetters) \cup DigitChars

\* the drug, manufacturer and lot texts of the model's documents
DrugTexts == {"ABIRATERONE 250MG", "Tamsulosin", "Cyanocobalamin inj.", "Aspirin",
              "Dapagliflozin", "Tamsulosin PL 12345/6789",
              "Tamsulosin  HCl", "TAMSULOSIN+SOLIFENACIN", "Tamsulosin + Solifenacin",
              "Linagliptin/Metformin", "Dimethyl-Fumarate", "Dimethyl  Fumarate (DMF)",
              "Luteumax", "pre-luteum", "Apixaban(R)", "tapentadol_er",
              "Cyclogest 400mg pessaries", "clobazam"}
             \cup Range(company_products)

MahTexts == {"", "Celix Pharma", "Cipla", "unknown"}

LotTexts == {"", "L1", "CIPLA-77", "PL 12345/6789", "plgb12345 / 01234"}

MatchedProduct == [t \in DrugTexts |-> contains_company_product(t, company_products)]

NotCompanyOf == [t \in MahTexts |-> NotCompanyName(t)]

HasAlnumOf == [t \in LotTexts |-> HasAlnum(t)]

CompetitorLotOf == [t \in LotTexts |-> contains_competitor_name(t, DEFAULT_COMPETITOR_NAMES)]

PlNumbersOf == [t \in DrugTexts \cup LotTexts |-> extract_pl_numbers(t)]

matched_company_prod(d) == MatchedProduct[d.name]

DisplayedDrugs(f) == SelectSeq(SuspectDrugs(f), LAMBDA d : matched_company_prod(d) # "")

case_products_norm(D) == {NormalizedOf[matched_company_prod(d)] : d \in Range(D)}

\* case_has_category2 set by any matched product
case_has_category2_AnyProduct(products_norm) == products_norm # {}

case_has_category2(products_norm) == \E k \in products_norm : k \in category2_products

\* product_norm_to_pretty: the text of the first drug of each product
product_norm_to_pretty(D) ==
    [k \in case_products_norm(D) |->
        LET i == CHOOSE i \in 1..Len(D) :
                    /\ NormalizedOf[matched_company_prod(D[i])] = k
                    /\ \A j \in 1..(i - 1) : NormalizedOf[matched_company_prod(D[j])] # k
        IN  CleanValueOf[D[i].name]]

\* tuples (product, strength_mg, start, stop); the code stores None (-1, 0)
\* for the strength and for the stop date
case_drug_dates_display(D) ==
    [i \in 1..Len(D) |-> <<matched_company_prod(D[i]), -1, parse_date_obj(D[i].low), 0>>]

mah_name_clean(d) == CleanValueOf[d.mah]

case_displayed_mahs(D) == [i \in 1..Len(D) |-> mah_name_clean(D[i])]

\* lines 586-591: one comment for each licence number in the text t
PlComments(display_name_for_detail, t) ==
    [k \in 1..Len(PlNumbersOf[t]) |->
        IF display_name_for_detail # ""
        THEN <<"plz check product name as ", display_name_for_detail, " ">>
             \o PlNumbersOf[t][k] \o <<" given">>
        ELSE <<"plz check product name: ">> \o PlNumbersOf[t][k] \o <<" given">>]

DrugComments(d) ==
    LET lot_clean == CleanValueOf[d.lot]
    IN     (IF HasAlnumOf[lot_clean]
            THEN << <<"Verify Lot No with Celix-Lot No List">> >> ELSE <<>>)
        \o PlComments(CleanValueOf[d.name], CleanValueOf[d.name])
        \o PlComments(CleanValueOf[d.name], lot_clean)
        \o (IF lot_clean # "" /\ CompetitorLotOf[lot_clean]
            THEN << <<"Lot number '", lot_clean,
                      "' may belong to another company - please verify.">> >>
            ELSE <<>>)
        \o (IF mah_name_clean(d) # "" /\ NotCompanyOf[mah_name_clean(d)]
            THEN << <<"MAH '", mah_name_clean(d), "' differs from Celix - please verify.">> >>
            ELSE <<>>)

RECURSIVE ConcatAll(_)
ConcatAll(ss) == IF ss = <<>> THEN <<>> ELSE Head(ss) \o ConcatAll(Tail(ss))

comments_of(D) == ConcatAll([i \in 1..Len(D) |-> DrugComments(D[i])])

LaunchStatusOf == [p \in Range(company_products) |-> get_launch_status(p)]

LaunchDateOf == [p \in Range(company_products) |-> get_launch_date(p, -1)]

\* the per-drug reason of lines 600-616 (<<>> for "")
DrugReason(has_detail, d) ==
    IF ~has_detail THEN <<"No patient details">>
    ELSE IF LaunchStatusOf[matched_company_prod(d)] \in {"yet", "awaited"}
         THEN <<"Product not Launched">>
         ELSE LET launch_dt      == LaunchDateOf[matched_company_prod(d)]
                  start_date_obj == parse_date_obj(d.low)
                  prior          == launch_dt # 0 /\ start_date_obj # 0
                                    /\ start_date_obj < launch_dt
              IN  IF prior
                  THEN <<"Drug exposure prior to Launch; ", "Drug">>
                  ELSE <<>>

displayed_drugs_assessment(has_detail, D) ==
    [i \in 1..Len(D) |->
        <<(IF CleanValueOf[D[i].name] # "" THEN CleanValueOf[D[i].name]
           ELSE "Unknown product"),
          DrugReason(has_detail, D[i])>>]

(***************************************************************************)
(* src/app.py 620-690: the reaction loop.                                  *)
(* mapping_df is [present, rows]; a row is [code, llt, pt].                *)
(***************************************************************************)
MappingRows(mapping, llt_code) ==
    SelectSeq(mapping.rows, LAMBDA r : r.code = llt_code)

\* llt_term that falls back to the code of the event
llt_term_RawCode(mapping, r) ==
    IF mapping.present /\ r.code # "" /\ MappingRows(mapping, r.code) # <<>>
    THEN MappingRows(mapping, r.code)[1].llt ELSE r.code

\* lines 631-648
llt_term(mapping, r) ==
    LET mapped == IF mapping.present /\ r.code # "" /\ MappingRows(mapping, r.code) # <<>>
                  THEN MappingRows(mapping, r.code)[1].llt ELSE ""
    IN  IF mapped = "" THEN r.displayName ELSE mapped

ReactionWarnings(mapping, r) ==
    IF mapping.present /\ r.code # ""
    THEN IF MappingRows(mapping, r.code) = <<>>
         THEN << <<"LLT code ", r.code,
                   " not found in mapping file - LLT/PT terms unavailable for this event.">> >>
         ELSE <<>>
    ELSE IF r.code # ""
         THEN << <<"LLT mapping file not provided - LLT/PT terms unavailable for code ",
                   r.code, ".">> >>
         ELSE <<>>

warnings_of(f, mapping) ==
    ConcatAll([i \in 1..Len(f.reactions) |-> ReactionWarnings(mapping, f.reactions[i])])

event_llts_norm(f, mapping) ==
    [i \in 1..Len(f.reactions) |-> NormalizedOf[llt_term(mapping, f.reactions[i])]]

\* seriousness_flags of a reaction: the criteria whose value is 'true'
seriousness_flags(r) == r.criteria

case_has_serious_event(f) ==
    \E i \in 1..Len(f.reactions) : seriousness_flags(f.reactions[i]) # {}

case_event_dates(f) ==
    [i \in 1..Len(f.reactions) |->
        <<"event", parse_date_obj(f.reactions[i].low), parse_date_obj(f.reactions[i].high)>>]

\* line 690, before the Non-Valid override
reportability_initial(has_serious_event, has_category2) ==
    IF has_serious_event /\ has_category2
    THEN "Category 2, serious, reportable case" ELSE "Non-Reportable"

(***************************************************************************)
(* src/app.py 692-727: FRD is the last effectiveTime/low with a value      *)
(* that the document walk meets before the first availabilityTime with a   *)
(* value (which ends the walk); LRD is that availabilityTime.              *)
(***************************************************************************)
DocLows(f) ==
    IF f.availabilityTime # 0 THEN <<f.headLow>>
    ELSE <<f.headLow>>
         \o [i \in 1..Len(f.reactions) |-> f.reactions[i].low]
         \o [i \in 1..Len(f.drugs) |-> f.drugs[i].low]

FRD_raw(f) ==
    LET lows == SelectSeq(DocLows(f), LAMBDA v : v # 0)
    IN  IF lows = <<>> THEN 0 ELSE lows[Len(lows)]

LRD_raw(f) == f.availabilityTime

\* lines 701-709, 729-731, 808-815: the report dates shown, one line each
report_date_display(f) ==
       (IF format_date(FRD_raw(f)) # <<>> THEN <<<<"FRD: ">> \o format_date(FRD_raw(f))>> ELSE <<>>)
    \o (IF format_date(LRD_raw(f)) # <<>> THEN <<<<"LRD: ">> \o format_date(LRD_raw(f))>> ELSE <<>>)
    \o (IF format_date(f.creationTime) # <<>>
        THEN <<<<"TD: ">> \o format_date(f.creationTime)>> ELSE <<>>)

(***************************************************************************)
(* src/app.py 741-794: the validity rules, on the locals of the case.  A   *)
(* reason is a piece sequence, <<>> standing for None.                     *)
(***************************************************************************)
\* AnyForeignMah without the manufacturer check
AnyForeignMah_Never(displayed_mahs) == FALSE

\* lines 751-753
AnyForeignMah(displayed_mahs) ==
    \E i \in 1..Len(displayed_mahs) :
        displayed_mahs[i] # "" /\ NotCompanyOf[displayed_mahs[i]]

\* AnyNotLaunched that forgets the "awaited" status
AnyNotLaunched_YetOnly(drug_dates) ==
    \E i \in 1..Len(drug_dates) : LaunchStatusOf[drug_dates[i][1]] \in {"yet"}

\* lines 755-760
AnyNotLaunched(drug_dates) ==
    \E i \in 1..Len(drug_dates) : LaunchStatusOf[drug_dates[i][1]] \in {"yet", "awaited"}

\* reason_before_exposure without the "no suspect matched" rule
reason_before_exposure_NoUnmatchedRule(has_detail, sus_ids, products_norm, displayed_mahs, drug_dates) ==
    IF ~has_detail THEN <<"No patient details">>
    ELSE IF AnyForeignMah(displayed_mahs) THEN <<"Non-company product">>
    ELSE IF AnyNotLaunched(drug_dates) THEN <<"Product not Launched">>
    ELSE <<>>

\* validity_reason after lines 745-760
reason_before_exposure(has_detail, sus_ids, products_norm, displayed_mahs, drug_dates) ==
    IF ~has_detail THEN <<"No patient details">>
    ELSE IF sus_ids # <<>> /\ products_norm = {} THEN <<"Non-company product">>
    ELSE IF AnyForeignMah(displayed_mahs) THEN <<"Non-company product">>
    ELSE IF AnyNotLaunched(drug_dates) THEN <<"Product not Launched">>
    ELSE <<>>

launch_date_of(prod, strength_mg) ==
    IF strength_mg = -1 THEN LaunchDateOf[prod] ELSE get_launch_date(prod, strength_mg)

\* lines 762-767 (0 for None)
earliest_launch_dt(drug_dates) ==
    LET lds == {launch_date_of(t[1], t[2]) : t \in Range(drug_dates)} \ {0}
    IN  IF lds = {} THEN 0 ELSE CHOOSE m \in lds : \A x \in lds : m <= x

event_prior(event_dates, launch_dt) ==
    \E i \in 1..Len(event_dates) :
        \/ (event_dates[i][2] # 0 /\ event_dates[i][2] < launch_dt)
        \/ (event_dates[i][3] # 0 /\ event_dates[i][3] < launch_dt)

\* drug_prior that never finds a drug start date before the launch
drug_prior_Never(drug_dates, launch_dt) == FALSE

drug_prior(drug_dates, launch_dt) ==
    \E i \in 1..Len(drug_dates) :
        drug_dates[i][1] # "" /\ drug_dates[i][3] # 0 /\ drug_dates[i][3] < launch_dt

\* lines 771-790, as sorted(set(exposure_reasons)):
\* "Drug" < "Event" < "FRD" < "LRD"
exposure_reasons(reason, launch_dt, frd_raw_obj, lrd_raw_obj, event_dates, drug_dates) ==
    IF reason = <<>> /\ launch_dt # 0
    THEN   (IF drug_prior(drug_dates, launch_dt) THEN <<"Drug">> ELSE <<>>)
        \o (IF event_prior(event_dates, launch_dt) THEN <<"Event">> ELSE <<>>)
        \o (IF frd_raw_obj # 0 /\ frd_raw_obj < launch_dt THEN <<"FRD">> ELSE <<>>)
        \o (IF lrd_raw_obj # 0 /\ lrd_raw_obj < launch_dt THEN <<"LRD">> ELSE <<>>)
    ELSE <<>>

\* lines 791-792
validity_reason(reason, exposure) ==
    IF reason # <<>> THEN reason
    ELSE IF exposure # <<>>
         THEN <<"Drug exposure prior to Launch; ">>
              \o Join([i \in 1..Len(exposure) |-> <<exposure[i]>>], ", ")
         ELSE <<>>

\* s.startswith(prefix), for a piece sequence whose first piece is a literal
StartsWith(s, prefix) ==
    /\ s # <<>>
    /\ Len(Chars(s[1])) >= Len(Chars(prefix))
    /\ SubSeq(Chars(s[1]), 1, Len(Chars(prefix))) = Chars(prefix)

\* validity_before_drugwise that ignores the comments
validity_before_drugwise_NoManual(case_comments, reason) ==
    IF reason # <<>> THEN <<"Non-Valid (">> \o reason \o <<")">> ELSE <<"Valid">>

\* lines 794-801
validity_before_drugwise(case_comments, reason) ==
    IF case_comments # <<>> /\ reason = <<>>
    THEN <<"Kindly check comment and assess validity manually">>
    ELSE IF reason # <<>>
         THEN <<"Non-Valid (">> \o reason \o <<")">>
         ELSE <<"Valid">>

\* lines 803-804
reportability(validity, initial) ==
    IF StartsWith(validity, "Non-Valid") THEN "NA" ELSE initial

\* is_non_valid_case that never holds
is_non_valid_case_Never(validity) == FALSE

\* line 806
is_non_valid_case(validity) == StartsWith(validity, "Non-Valid")

\* lines 817-820
per_drug_nonvalid_lines(assessment) ==
    LET bad == SelectSeq(assessment, LAMBDA a : a[2] # <<>>)
    IN  [i \in 1..Len(bad) |-> <<bad[i][1], ": ">> \o bad[i][2]]

show_per_drug_comment(assessment) ==
    /\ Len(assessment) > 1
    /\ Len(per_drug_nonvalid_lines(assessment)) = Len(assessment)

validity_value(validity, assessment) ==
    IF show_per_drug_comment(assessment) /\ StartsWith(validity, "Non-Valid")
    THEN validity \o <<" \n Drug-wise: ">> \o Join(per_drug_nonvalid_lines(assessment), "; ")
    ELSE validity

(***************************************************************************)
(* src/app.py 131-147, 822-841: listedness.                                *)
(* A listedness file is [present, rows]; a row is [drug, llt].             *)
(***************************************************************************)
to_pair_set(df) ==
    LET pair(r) == <<NormalizedOf[r.drug], NormalizedOf[r.llt]>>
    IN  {pair(r) : r \in {q \in Range(df.rows) : pair(q)[1] # "" /\ pair(q)[2] # ""}}

\* lines 305-313
listedness_pairs_of(ldf) ==
    IF ldf.present THEN to_pair_set(ldf) ELSE {}

\* the order of Python's str comparison on the characters of the model
CharOrder == <<"\t", "\n", " ", "'", "(", ")", "+", "-", ".", "/",
               "0","1","2","3","4","5","6","7","8","9", ":", ";">>
             \o UpperLetters \o <<"[", "]", "_">> \o LowerLetters

Ord(c) == CHOOSE i \in 1..Len(CharOrder) : CharOrder[i] = c

RECURSIVE CharsLess(_, _)
CharsLess(a, b) ==
    IF b = <<>> THEN FALSE
    ELSE IF a = <<>> THEN TRUE
    ELSE IF Head(a) = Head(b) THEN CharsLess(Tail(a), Tail(b))
    ELSE Ord(Head(a)) < Ord(Head(b))

RECURSIVE SortByPretty(_, _)
\* sorted(list(case_products_norm), key=pretty)
SortByPretty(keys, pretty) ==
    IF keys = {} THEN <<>>
    ELSE LET k == CHOOSE k \in keys :
                     \A o \in keys \ {k} : ~CharsLess(Chars(pretty[o]), Chars(pretty[k]))
         IN  <<k>> \o SortByPretty(keys \ {k}, pretty)

\* ListedWord that ignores the membership test
ListedWord_Always(is_listed) == "Listed"

ListedWord(is_listed) == IF is_listed THEN "Listed" ELSE "Unlisted"

\* event_wise_listedness_display that merges the products into one status
\* per event
event_wise_listedness_display_Merged(non_valid, llts, prods, pretty, pairs) ==
    IF non_valid \/ llts = <<>> THEN <<>>
    ELSE Join([i \in 1..Len(llts) |->
                  <<"Event ", ToString(i), ": ",
                    ListedWord(\E pnorm \in prods : <<pnorm, llts[i]>> \in pairs)>>],
              "\n")

\* lines 822-841
event_wise_listedness_display(non_valid, llts, prods, pretty, pairs) ==
    IF non_valid \/ llts = <<>> THEN <<>>
    ELSE IF Cardinality(prods) <= 1
    THEN Join([i \in 1..Len(llts) |->
                  <<"Event ", ToString(i), ": ",
                    ListedWord(\E pnorm \in prods : <<pnorm, llts[i]>> \in pairs)>>],
              "\n")
    ELSE LET order == SortByPretty(prods, pretty)
         IN  Join([j \in 1..Len(order) |->
                      <<pretty[order[j]], " - ">>
                      \o Join([i \in 1..Len(llts) |->
                                  <<"Event ", ToString(i), ": ",
                                    ListedWord(<<order[j], llts[i]>> \in pairs)>>],
                              "; ")],
                  "\n")

(***************************************************************************)
(* src/app.py 341-859: one file, from the parsed document to the record.   *)
(* The record has the columns the derived judgments and annotations are    *)
(* in; Comment is the set of the comments (the code joins them sorted and  *)
(* without duplicates).                                                    *)
(***************************************************************************)
\* lines 356-727: the locals of the case after the patient block, the drug
\* loop, the reaction loop and the walk for FRD and LRD
CaseLocals(f, mapping, D) ==
    [ has_any_patient_detail     |-> has_any_patient_detail(f),
      suspect_ids                |-> suspect_ids(f),
      case_products_norm         |-> case_products_norm(D),
      product_norm_to_pretty     |-> product_norm_to_pretty(D),
      case_drug_dates_display    |-> case_drug_dates_display(D),
      case_displayed_mahs        |-> case_displayed_mahs(D),
      comments                   |-> comments_of(D),
      displayed_drugs_assessment |-> displayed_drugs_assessment(has_any_patient_detail(f), D),
      case_event_dates           |-> case_event_dates(f),
      event_llts_norm            |-> event_llts_norm(f, mapping),
      warnings                   |-> warnings_of(f, mapping),
      reportability              |-> reportability_initial(case_has_serious_event(f),
                                         case_has_category2(case_products_norm(D))),
      earliest_launch_dt         |-> earliest_launch_dt(case_drug_dates_display(D)),
      frd_raw_obj                |-> parse_date_obj(FRD_raw(f)),
      lrd_raw_obj                |-> parse_date_obj(LRD_raw(f)) ]

\* lines 741-760 on the locals c
ReasonBeforeExposure(c) ==
    reason_before_exposure(c.has_any_patient_detail, c.suspect_ids, c.case_products_norm,
                           c.case_displayed_mahs, c.case_drug_dates_display)

\* lines 741-792 on the locals c
ValidityReason(c) ==
    validity_reason(ReasonBeforeExposure(c),
                    exposure_reasons(ReasonBeforeExposure(c), c.earliest_launch_dt,
                                     c.frd_raw_obj, c.lrd_raw_obj,
                                     c.case_event_dates, c.case_drug_dates_display))

\* lines 803-859: the record and what the file leaves behind, from the
\* locals c, the reason and the validity before the drug-wise suffix
Assemble(n, f, pairs, c, reason, validity) ==
    [ warnings |-> c.warnings,
      comments |-> c.comments,
      locals   |-> [ has_any_patient_detail     |-> c.has_any_patient_detail,
                     suspect_ids                |-> c.suspect_ids,
                     case_products_norm         |-> c.case_products_norm,
                     case_drug_dates_display    |-> c.case_drug_dates_display,
                     case_event_dates           |-> c.case_event_dates,
                     case_displayed_mahs        |-> c.case_displayed_mahs,
                     displayed_drugs_assessment |-> c.displayed_drugs_assessment,
                     earliest_launch_dt         |-> c.earliest_launch_dt,
                     event_llts_norm            |-> c.event_llts_norm,
                     frd_raw_obj                |-> c.frd_raw_obj,
                     lrd_raw_obj                |-> c.lrd_raw_obj,
                     validity_reason            |-> reason ],
      row      |-> [ SL_No            |-> n,
                     Report_Date      |-> report_date_display(f),
                     Patient_Detail   |-> patient_detail(f),
                     Listedness       |-> IF is_non_valid_case(validity) THEN <<>>
                                          ELSE event_wise_listedness_display(
                                                   is_non_valid_case(validity),
                                                   c.event_llts_norm, c.case_products_norm,
                                                   c.product_norm_to_pretty, pairs),
                     Validity         |-> validity_value(validity, c.displayed_drugs_assessment),
                     Comment          |-> Range(c.comments),
                     Reportability    |-> reportability(validity, c.reportability),
                     Parsing_Warnings |-> c.warnings ] ]

\* each local is computed once, in the order of the code: the drugs shown,
\* the locals of the loops, the reason, the validity, the record
Evaluate(n, f, pairs, mapping) ==
    CHOOSE e \in
        {Assemble(n, f, pairs, x[1], x[2], validity_before_drugwise(x[1].comments, x[2])) :
            x \in {<<c, ValidityReason(c)>> :
                      c \in {CaseLocals(f, mapping, D) : D \in {DisplayedDrugs(f)}}}} : TRUE

NoLocals ==
    [ has_any_patient_detail     |-> FALSE,
      suspect_ids                |-> <<>>,
      case_products_norm         |-> {},
      case_drug_dates_display    |-> <<>>,
      case_event_dates           |-> <<>>,
      case_displayed_mahs        |-> <<>>,
      displayed_drugs_assessment |-> <<>>,
      earliest_launch_dt         |-> 0,
      event_llts_norm            |-> <<>>,
      frd_raw_obj                |-> 0,
      lrd_raw_obj                |-> 0,
      validity_reason            |-> <<>> ]

(***************************************************************************)
(* src/app.py 324-864: the loop over the uploaded files.                   *)
(***************************************************************************)
\* ParseFails that gives up the batch at the first malformed file
ParseFails_Abort ==
    /\ idx < Len(uploaded_files)
    /\ ~uploaded_files[idx + 1].wellformed
    /\ idx' = Len(uploaded_files)
    /\ warnings' = <<>>
    /\ comments' = <<>>
    /\ errors' = Append(errors, idx + 1)
    /\ UNCHANGED <<uploaded_files, listedness_file, listedness_pairs, mapping_df, all_rows_display,
                   parsed_rows, work>>

\* lines 333-339: ET.parse raises; the file is reported and skipped
ParseFails ==
    /\ idx < Len(uploaded_files)
    /\ ~uploaded_files[idx + 1].wellformed
    /\ idx' = idx + 1
    /\ warnings' = <<>>
    /\ comments' = <<>>
    /\ errors' = Append(errors, idx + 1)
    /\ UNCHANGED <<uploaded_files, listedness_file, listedness_pairs, mapping_df, all_rows_display,
                   parsed_rows, work>>

\* ProcessFile without the reset of warnings and comments of lines 331-332
ProcessFile_NoReset ==
    /\ idx < Len(uploaded_files)
    /\ uploaded_files[idx + 1].wellformed
    /\ LET e == Evaluate(idx + 1, uploaded_files[idx + 1], listedness_pairs, mapping_df)
       IN  /\ warnings' = warnings \o e.warnings
           /\ comments' = comments \o e.comments
           /\ work' = e.locals
           /\ all_rows_display' =
                 Append(all_rows_display,
                        [e.row EXCEPT !.Comment = Range(comments \o e.comments),
                                      !.Parsing_Warnings = warnings \o e.warnings])
    /\ parsed_rows' = parsed_rows + 1
    /\ idx' = idx + 1
    /\ UNCHANGED <<uploaded_files, listedness_file, listedness_pairs, mapping_df, errors>>

\* lines 341-862: one file is parsed, evaluated and its record appended
ProcessFile ==
    /\ idx < Len(uploaded_files)
    /\ uploaded_files[idx + 1].wellformed
    /\ LET e == Evaluate(idx + 1, uploaded_files[idx + 1], listedness_pairs, mapping_df)
       IN  /\ warnings' = e.warnings
           /\ comments' = e.comments
           /\ work' = e.locals
           /\ all_rows_display' = Append(all_rows_display, e.row)
    /\ parsed_rows' = parsed_rows + 1
    /\ idx' = idx + 1
    /\ UNCHANGED <<uploaded_files, listedness_file, listedness_pairs, mapping_df, errors>>

Next == ParseFails \/ ProcessFile

(***************************************************************************)
(* The documents of the model.  Raw dates: 20220101 precedes every launch  *)
(* date of the registry; 202301 (a year and month, the date 2023-01-31)    *)
(* lies between the launches of abiraterone and of tamsulosin.             *)
(***************************************************************************)
File(wf, g, ct, hl, av, ds, rs) ==
    [ wellformed |-> wf, gender_code |-> g, initials |-> "", age_group |-> "",
      age_val |-> "", height_val |-> "", weight_val |-> "",
      record_nf |-> "", record_ext |-> "",
      creationTime |-> ct, headLow |-> hl, availabilityTime |-> av,
      causality |-> [i \in 1..Len(ds) |->
                        [code |-> IF ds[i].suspect THEN "1" ELSE "2", ref |-> ToString(i)]],
      drugs |-> [i \in 1..Len(ds) |->
                    [id |-> ToString(i), name |-> ds[i].name, low |-> ds[i].low,
                     high |-> ds[i].high, mah |-> ds[i].mah, lot |-> ds[i].lot]],
      reactions |-> rs ]

MalformedFile == File(FALSE, "", 0, 0, 0, <<>>, <<>>)

DrugNode(s, n, lo, hi, m, l) ==
    [suspect |-> s, name |-> n, low |-> lo, high |-> hi, mah |-> m, lot |-> l]

\* the drug nodes: products launched (abiraterone, tamsulosin), awaited
\* (cyanocobalamin) and outside the vocabulary (Aspirin), with a start or a
\* stop date, a manufacturer or a lot; the last node is not a suspect
CoreDrugs ==
    { DrugNode(TRUE, "ABIRATERONE 250MG", 0, 0, "", ""),
      DrugNode(TRUE, "ABIRATERONE 250MG", 20220101, 0, "", ""),
      DrugNode(TRUE, "ABIRATERONE 250MG", 0, 20220101, "", ""),
      DrugNode(TRUE, "ABIRATERONE 250MG", 20220101, 0, "Cipla", ""),
      DrugNode(TRUE, "ABIRATERONE 250MG", 0, 0, "", "L1"),
      DrugNode(TRUE, "Tamsulosin", 0, 0, "", ""),
      DrugNode(TRUE, "Tamsulosin", 202301, 0, "", ""),
      DrugNode(TRUE, "Tamsulosin", 20220101, 0, "Celix Pharma", ""),
      DrugNode(TRUE, "Cyanocobalamin inj.", 0, 0, "", ""),
      DrugNode(TRUE, "Cyanocobalamin inj.", 20220101, 0, "Cipla", ""),
      DrugNode(TRUE, "Cyanocobalamin inj.", 20220101, 0, "Celix Pharma", ""),
      DrugNode(TRUE, "Aspirin", 20220101, 0, "Cipla", ""),
      DrugNode(FALSE, "Aspirin", 20220101, 0, "Cipla", "") }

Reaction(c, dn, cr, lo, hi) ==
    [code |-> c, displayName |-> dn, criteria |-> cr, low |-> lo, high |-> hi]

CoreReactions ==
    { Reaction("10019211", "Nausea", {}, 0, 0),
      Reaction("10019211", "Nausea", {"Death"}, 0, 0),
      Reaction("10019211", "Nausea", {}, 20220101, 0),
      Reaction("10019211", "Nausea", {"Death"}, 0, 20220101) }

\* (creationTime, availabilityTime) of the documents
CoreHeaders == {<<0, 0>>, <<20220101, 0>>, <<0, 20220101>>}

CoreFiles ==
    {File(TRUE, g, h[1], 0, h[2], ds, rs) :
        g \in {"", "1"}, h \in CoreHeaders,
        ds \in SeqsUpTo(CoreDrugs, MaxDrugs), rs \in SeqsUpTo(CoreReactions, MaxEvents)}
    \cup {MalformedFile}

CoreMapping ==
    [present |-> TRUE,
     rows |-> << [code |-> "10019211", llt |-> "Headache", pt |-> "Headache"] >>]

CoreListedness ==
    [present |-> TRUE, rows |-> << [drug |-> "Tamsulosin", llt |-> "Headache"] >>]

\* lines 265-328: the state before the loop, for a batch, a listedness
\* reference and a mapping taken from the given sets
InitFrom(batches, references, mappings) ==
    /\ uploaded_files \in batches
    /\ listedness_file \in references
    /\ listedness_pairs = listedness_pairs_of(listedness_file)
    /\ mapping_df \in mappings
    /\ idx = 0
    /\ all_rows_display = <<>>
    /\ parsed_rows = 0
    /\ errors = <<>>
    /\ warnings = <<>>
    /\ comments = <<>>
    /\ work = NoLocals

\* a batch of one file taken from files, with the core references
InitWith(files) == InitFrom({<<f>> : f \in files}, {CoreListedness}, {CoreMapping})

Init == InitWith(CoreFiles)

Spec == Init /\ [][Next]_vars

(***************************************************************************)
(* Documents around the strength-gated product dapagliflozin (tiers        *)
(* launched 2025-08-26 and 2025-09-10): 20250801 precedes both tiers,      *)
(* 20250901 lies between them.                                             *)
(***************************************************************************)
StrengthDrugs ==
    {DrugNode(TRUE, n, lo, 0, m, "") :
        n \in {"Dapagliflozin", "ABIRATERONE 250MG"}, lo \in {0, 20250801},
        m \in {"", "Cipla"}}

StrengthReactions ==
    {Reaction("10019211", "Nausea", {}, dt[1], dt[2]) :
        dt \in {<<0, 0>>, <<20250801, 0>>, <<0, 20250801>>, <<20250901, 0>>}}

StrengthFiles ==
    {File(TRUE, g, 0, 0, 0, ds, rs) :
        g \in {"", "1"},
        ds \in SeqsUpTo(StrengthDrugs, MaxDrugs), rs \in SeqsUpTo(StrengthReactions, MaxEvents)}
    \cup {MalformedFile}

InitStrength == InitWith(StrengthFiles)

SpecStrength == InitStrength /\ [][Next]_vars

(***************************************************************************)
(* Documents and references around listedness and the code/term mapping:   *)
(* the reference is absent, empty, or lists pairs of some products; the    *)
(* mapping is absent or knows the code 10019211 only.                      *)
(***************************************************************************)
ListedDrugs ==
    { DrugNode(TRUE, "Tamsulosin", 0, 0, "", ""),
      DrugNode(TRUE, "ABIRATERONE 250MG", 0, 0, "", ""),
      DrugNode(TRUE, "Aspirin", 0, 0, "", "") }

ListedReactions ==
    { Reaction("10019211", "Nausea", {}, 0, 0),
      Reaction("10028813", "Nausea", {}, 0, 0),
      Reaction("10028813", "", {}, 0, 0) }

ListedFiles ==
    {File(TRUE, g, 0, 0, 0, ds, rs) :
        g \in {"", "1"},
        ds \in SeqsUpTo(ListedDrugs, MaxDrugs), rs \in SeqsUpTo(ListedReactions, MaxEvents)}
    \cup {MalformedFile}

NoReference == [present |-> FALSE, rows |-> <<>>]

ListedReferences ==
    { NoReference,
      [present |-> TRUE, rows |-> <<>>],
      [present |-> TRUE, rows |-> << [drug |-> "Tamsulosin", llt |-> "Headache"] >>],
      [present |-> TRUE, rows |-> << [drug |-> "Tamsulosin", llt |-> "Nausea"],
                                     [drug |-> "abiraterone", llt |-> "Headache"] >>],
      [present |-> TRUE, rows |-> << [drug |-> "Tamsulosin", llt |-> "10028813"] >>] }

NoMapping == [present |-> FALSE, rows |-> <<>>]

InitListed == InitFrom({<<f>> : f \in ListedFiles}, ListedReferences, {NoMapping, CoreMapping})

SpecListed == InitListed /\ [][Next]_vars


(***************************************************************************)
(* Batches of up to MaxFiles files: a malformed file, cases with comments  *)
(* or warnings, a case without patient details and a plain valid case.     *)
(***************************************************************************)
BatchFiles ==
    { MalformedFile,
      File(TRUE, "1", 0, 0, 0, <<DrugNode(TRUE, "Tamsulosin", 0, 0, "", "")>>,
           <<Reaction("10019211", "Nausea", {"Death"}, 0, 0)>>),
      File(TRUE, "1", 0, 0, 0, <<DrugNode(TRUE, "ABIRATERONE 250MG", 20220101, 0, "Cipla", "L1")>>,
           <<Reaction("10028813", "Nausea", {}, 0, 0)>>),
      File(TRUE, "", 0, 0, 0, <<DrugNode(TRUE, "Aspirin", 0, 0, "", "")>>, <<>>),
      File(TRUE, "1", 0, 0, 20220101, <<DrugNode(TRUE, "ABIRATERONE 250MG", 0, 0, "", "")>>, <<>>) }

InitBatch == InitFrom(SeqsUpTo(BatchFiles, MaxFiles), {CoreListedness}, {CoreMapping})

SpecBatch == InitBatch /\ [][Next]_vars

(***************************************************************************)
(* Documents around the anomaly comments: lots that are plain, name a      *)
(* competitor or hold a licence number, on drugs of a valid and of a       *)
(* non-valid case; a drug name that holds a licence number.                *)
(***************************************************************************)
CommentDrugs ==
    { DrugNode(TRUE, "Tamsulosin", 0, 0, "", ""),
      DrugNode(TRUE, "Tamsulosin", 0, 0, "", "L1"),
      DrugNode(TRUE, "Tamsulosin", 0, 0, "", "CIPLA-77"),
      DrugNode(TRUE, "Tamsulosin", 0, 0, "", "PL 12345/6789"),
      DrugNode(TRUE, "Tamsulosin PL 12345/6789", 0, 0, "", ""),
      DrugNode(TRUE, "ABIRATERONE 250MG", 20220101, 0, "", ""),
      DrugNode(TRUE, "ABIRATERONE 250MG", 20220101, 0, "", "L1"),
      DrugNode(TRUE, "Cyanocobalamin inj.", 0, 0, "", "plgb12345 / 01234"),
      DrugNode(TRUE, "Aspirin", 0, 0, "", "L1") }

CommentFiles ==
    {File(TRUE, g, 0, 0, 0, ds, rs) :
        g \in {"", "1"},
        ds \in SeqsUpTo(CommentDrugs, MaxDrugs),
        rs \in SeqsUpTo({Reaction("10019211", "Nausea", {}, 0, 0)}, MaxEvents)}
    \cup {MalformedFile}

InitComments == InitWith(CommentFiles)

SpecComments == InitComments /\ [][Next]_vars

(***************************************************************************)
(* Documents around the dates: an availabilityTime and a drug start of     *)
(* every precision, valid and invalid, on a launched product.              *)
(***************************************************************************)
DateRaws ==
    { 0, 7, 20, 202, 2023, 2024, 1900, 20235, 202306, 202302, 202402, 190002,
      200002, 210002, 202304, 202312, 202313, 202300, 202209, 202208, 2023061,
      20230615, 20230631, 20230431, 20240229, 20230229, 19000229, 20000229,
      20231301, 20230100, 20230600, 20220907, 20220908, 20221231,
      202306151, 2023061512, 2023022912 }

DateDrugs ==
    { DrugNode(TRUE, "ABIRATERONE 250MG", low, 0, "", "") : low \in {0, 2022, 202209, 20220908} }

DateFiles ==
    {File(TRUE, "1", 0, 0, av, ds, <<>>) :
        av \in DateRaws, ds \in SeqsUpTo(DateDrugs, MaxDrugs)}
    \cup {File(TRUE, "1", ct, 0, 0, <<DrugNode(TRUE, "ABIRATERONE 250MG", low, 0, "", "")>>, <<>>) :
            ct \in {2023, 202306}, low \in DateRaws}
    \cup {MalformedFile}

InitDates == InitWith(DateFiles)

SpecDates == InitDates /\ [][Next]_vars

(***************************************************************************)
(* Documents around the patient block: every field absent, present, an     *)
(* unknown token or masked, on a case with one matched suspect drug.       *)
(***************************************************************************)
PatientFiles ==
    {[File(TRUE, g, 0, 0, 0, <<DrugNode(TRUE, "Tamsulosin", 0, 0, "", "")>>, <<>>)
        EXCEPT !.initials = ini, !.age_group = ag, !.age_val = a, !.height_val = h,
               !.record_nf = rec[1], !.record_ext = rec[2]] :
        g \in {"", "1"}, ini \in {"", "Masked", "UNK"},
        ag \in {"", "Adult", "[Masked/Unknown]"}, a \in {"", "45", " asku "},
        h \in {"", "170"}, rec \in {<<"", "">>, <<"MSK", "">>, <<"", "PRN-1">>}}
    \cup {MalformedFile}

InitPatient == InitWith(PatientFiles)

SpecPatient == InitPatient /\ [][Next]_vars

(***************************************************************************)
(* Documents around the drug names: names in upper and lower case, with    *)
(* punctuation, runs of spaces, "+", "-" and "_".                          *)
(***************************************************************************)
NameTexts ==
    { "ABIRATERONE 250MG", "Tamsulosin  HCl", "TAMSULOSIN+SOLIFENACIN",
      "Tamsulosin + Solifenacin", "Linagliptin/Metformin", "Dimethyl-Fumarate",
      "Dimethyl  Fumarate (DMF)", "Luteumax", "pre-luteum", "Apixaban(R)",
      "tapentadol_er", "Cyclogest 400mg pessaries" }

NameDrugs == {DrugNode(TRUE, t, 0, 0, "", "") : t \in NameTexts}

NameFiles ==
    {File(TRUE, "1", 0, 0, 0, ds, <<>>) : ds \in SeqsUpTo(NameDrugs, MaxDrugs)}
    \cup {MalformedFile}

InitNames == InitWith(NameFiles)

SpecNames == InitNames /\ [][Next]_vars

(***************************************************************************)
(* Documents around the listedness of several products: up to MaxDrugs     *)
(* suspect drugs of three launched products (one product under two names), *)
(* no, one or two events, and references that list the events differently  *)
(* for each product.                                                       *)
(***************************************************************************)
PerProductDrugs ==
    { DrugNode(TRUE, "Tamsulosin", 0, 0, "", ""),
      DrugNode(TRUE, "Tamsulosin  HCl", 0, 0, "", ""),
      DrugNode(TRUE, "ABIRATERONE 250MG", 0, 0, "", ""),
      DrugNode(TRUE, "clobazam", 0, 0, "", "") }

PerProductEvents ==
    { <<>>,
      <<Reaction("10019211", "Headache", {}, 0, 0)>>,
      <<Reaction("10028813", "Nausea", {}, 0, 0)>>,
      <<Reaction("10019211", "Headache", {}, 0, 0), Reaction("10028813", "Nausea", {}, 0, 0)>>,
      <<Reaction("10028813", "Nausea", {}, 0, 0), Reaction("10019211", "Headache", {}, 0, 0)>>,
      <<Reaction("10028813", "Nausea", {}, 0, 0), Reaction("10028813", "Nausea", {}, 0, 0)>> }

PerProductFiles ==
    {File(TRUE, "1", 0, 0, 0, ds, rs) :
        ds \in SeqsUpTo(PerProductDrugs, MaxDrugs), rs \in PerProductEvents}
    \cup {MalformedFile}

PerProductReferences ==
    { [present |-> TRUE, rows |-> << [drug |-> "Tamsulosin", llt |-> "Nausea"],
                                     [drug |-> "abiraterone", llt |-> "Headache"] >>],
      [present |-> TRUE, rows |-> << [drug |-> "Tamsulosin", llt |-> "Nausea"],
                                     [drug |-> "Tamsulosin", llt |-> "Headache"] >>],
      [present |-> TRUE, rows |-> << [drug |-> "clobazam", llt |-> "Nausea"],
                                     [drug |-> "abiraterone", llt |-> "Nausea"] >>] }

InitPerProduct ==
    InitFrom({<<f>> : f \in PerProductFiles}, PerProductReferences, {CoreMapping})

SpecPerProduct == InitPerProduct /\ [][Next]_vars

(***************************************************************************)
(* Documents around several launch dates: up to MaxDrugs suspect drugs of  *)
(* two products launched on different days (abiraterone 2022-09-08,        *)
(* clobazam 2024-09-26), each without a start or starting before the       *)
(* first launch, between the two, or after both.                           *)
(***************************************************************************)
LaunchDrugs ==
    { DrugNode(TRUE, t, low, 0, "", "") :
        t \in {"ABIRATERONE 250MG", "clobazam"}, low \in {0, 20220101, 20230101, 20250101} }

LaunchFiles ==
    {File(TRUE, "1", 0, 0, 0, ds, <<>>) : ds \in SeqsUpTo(LaunchDrugs, MaxDrugs)}
    \cup {MalformedFile}

InitLaunch == InitWith(LaunchFiles)

SpecLaunch == InitLaunch /\ [][Next]_vars

(***************************************************************************)
(* Documents around the vocabulary: one suspect drug named exactly as an   *)
(* entry of the product vocabulary, for every entry.                       *)
(***************************************************************************)
VocabularyFiles ==
    {File(TRUE, g, 0, 0, 0, <<DrugNode(TRUE, company_products[k], 0, 0, "", "")>>, <<>>) :
        g \in {"", "1"}, k \in 1..Len(company_products)}
    \cup {MalformedFile}

InitVocabulary == InitWith(VocabularyFiles)

SpecVocabulary == InitVocabulary /\ [][Next]_vars

(***************************************************************************)
(* Properties.  They are stated on the documents (the input) and on the    *)
(* records the loop assembled, with the expectations written out           *)
(* independently of the operators above.                                   *)
(***************************************************************************)
Rows == Range(all_rows_display)

FileOf(r) == uploaded_files[r.SL_No]

\* what each drug text of the model denotes in the product vocabulary
ExpectedProduct ==
    ("ABIRATERONE 250MG" :> "abiraterone") @@ ("Tamsulosin" :> "tamsulosin")
 @@ ("Cyanocobalamin inj." :> "cyanocobalamin") @@ ("Aspirin" :> "")
 @@ ("Dapagliflozin" :> "dapagliflozin") @@ ("Tamsulosin PL 12345/6789" :> "tamsulosin")
 @@ ("clobazam" :> "clobazam") @@ ("Tamsulosin  HCl" :> "tamsulosin")

\* the texts of the model that are empty or an unknown token
UnknownLikeTexts == {"", "unk", "asku", "unknown", "Unknown"}

\* the manufacturer texts of the model that mention the company
CompanyMahTexts == {"Celix Pharma"}

HasDemographics(f) ==
    \/ f.gender_code \in {"1", "2"}
    \/ \E t \in {f.initials, f.age_group, f.age_val, f.height_val, f.weight_val} :
          t \notin UnknownLikeTexts

SuspectIdx(f) ==
    {i \in 1..Len(f.drugs) :
        \E j \in 1..Len(f.causality) :
            f.causality[j].code = "1" /\ f.causality[j].ref = f.drugs[i].id}

MatchedIdx(f) == {i \in SuspectIdx(f) : ExpectedProduct[f.drugs[i].name] # ""}

ProductAt(f, i) == ExpectedProduct[f.drugs[i].name]

StatusOf(p) == LAUNCH_INFO[p][1]

ForeignMah(t) == t \notin UnknownLikeTexts /\ t \notin CompanyMahTexts

ReasonNames == {"No patient details", "Non-company product", "Product not Launched",
                "Drug exposure prior to Launch", "Drug exposure prior to Launch; "}

NamedReasons(v) == Range(v) \cap ReasonNames

IsNonValid(v) == v[1] = "Non-Valid ("

\* the reason in the parentheses of a Non-Valid verdict
VerdictReason(v) == IF IsNonValid(v) THEN v[2] ELSE ""

Rule1(f) == ~HasDemographics(f)

Rule2(f) ==
    \/ SuspectIdx(f) # {} /\ MatchedIdx(f) = {}
    \/ \E i \in MatchedIdx(f) : ForeignMah(f.drugs[i].mah)

Rule3(f) == \E i \in MatchedIdx(f) : StatusOf(ProductAt(f, i)) \in {"yet", "awaited"}

\* the launch date of a product when no strength is known (0: none)
KnownLaunchDate(p) ==
    IF StatusOf(p) = "launched" THEN LAUNCH_INFO[p][2]
    ELSE IF StatusOf(p) = "launched_by_strength"
         THEN CHOOSE m \in {LAUNCH_INFO[p][2][k] : k \in DOMAIN LAUNCH_INFO[p][2]} :
                 \A k \in DOMAIN LAUNCH_INFO[p][2] : m <= LAUNCH_INFO[p][2][k]
         ELSE 0

Before(raw, launch) == parse_date_obj(raw) # 0 /\ parse_date_obj(raw) < launch

\* rule 4 with the dates the evaluator compares, against the earliest launch
\* date of the case's matched products
Rule4(f) ==
    LET dates == {KnownLaunchDate(ProductAt(f, i)) : i \in MatchedIdx(f)} \ {0}
    IN  /\ dates # {}
        /\ LET L == CHOOSE m \in dates : \A x \in dates : m <= x
           IN  \/ \E i \in MatchedIdx(f) : Before(f.drugs[i].low, L)
               \/ \E i \in 1..Len(f.reactions) :
                     Before(f.reactions[i].low, L) \/ Before(f.reactions[i].high, L)
               \/ Before(FRD_raw(f), L)
               \/ Before(LRD_raw(f), L)

FirstApplicable(f) ==
    IF Rule1(f) THEN "No patient details"
    ELSE IF Rule2(f) THEN "Non-company product"
    ELSE IF Rule3(f) THEN "Product not Launched"
    ELSE IF Rule4(f) THEN "Drug exposure prior to Launch; "
    ELSE ""

\* C1: every verdict names at most one reason, the first applicable one in
\* the priority order No patient details, Non-company product, Product not
\* Launched, Drug exposure prior to Launch, and is Valid only when no rule
\* applies.
C1_OneReasonInPriorityOrder ==
    \A r \in Rows :
        /\ NamedReasons(r.Validity) =
              (IF FirstApplicable(FileOf(r)) = "" THEN {} ELSE {FirstApplicable(FileOf(r))})
        /\ r.Validity = <<"Valid">> => FirstApplicable(FileOf(r)) = ""

\* C2: a case with no surviving demographic field has the Validity exactly
\* "Non-Valid (No patient details)".
C2_NoPatientDetailsExact ==
    \A r \in Rows :
        ~HasDemographics(FileOf(r)) =>
            r.Validity = <<"Non-Valid (", "No patient details", ")">>


\* the Validity pieces of an exposure verdict whose sources are S
ExposureVerdict(S) ==
    <<"Non-Valid (", "Drug exposure prior to Launch; ">>
    \o Join(SelectSeq(<< <<"Drug">>, <<"Event">>, <<"FRD">>, <<"LRD">> >>,
                      LAMBDA p : p[1] \in S), ", ")
    \o <<")">>

AllUnmatched(f) == \A i \in SuspectIdx(f) : ProductAt(f, i) = ""

\* C3 as stated: when every suspect drug fails product-vocabulary matching,
\* the Validity is "Non-Valid (Non-company product)".
C3_Original ==
    \A r \in Rows :
        (SuspectIdx(FileOf(r)) # {} /\ AllUnmatched(FileOf(r))) =>
            r.Validity = <<"Non-Valid (", "Non-company product", ")">>

\* C3 amended: when the case has patient details and at least one suspect
\* drug, and every suspect drug fails product-vocabulary matching, the
\* Validity is "Non-Valid (Non-company product)".
C3_UnmatchedSuspectsNonCompany ==
    \A r \in Rows :
        (HasDemographics(FileOf(r)) /\ SuspectIdx(FileOf(r)) # {} /\ AllUnmatched(FileOf(r)))
            => r.Validity = <<"Non-Valid (", "Non-company product", ")">>

C3_Witness ==
    \E r \in Rows :
        /\ HasDemographics(FileOf(r)) /\ SuspectIdx(FileOf(r)) # {} /\ AllUnmatched(FileOf(r))
        /\ r.Validity = <<"Non-Valid (", "Non-company product", ")">>

\* exactly one suspect drug, and it matches a product whose status is st
OnlySuspectHasStatus(f, st) ==
    /\ Cardinality(SuspectIdx(f)) = 1
    /\ \A i \in SuspectIdx(f) : ProductAt(f, i) # "" /\ StatusOf(ProductAt(f, i)) = st

\* C4 as stated: when the only suspect product is "awaited", the Validity is
\* "Non-Valid (Product not Launched)", whatever the dates.
C4_Original ==
    \A r \in Rows :
        OnlySuspectHasStatus(FileOf(r), "awaited") =>
            r.Validity = <<"Non-Valid (", "Product not Launched", ")">>

\* C4 amended: when the case has patient details and its only suspect drug
\* matches an "awaited" product and declares no manufacturer other than the
\* company, the Validity is "Non-Valid (Product not Launched)", whatever the
\* dates.
C4_AwaitedNotLaunched ==
    \A r \in Rows :
        (/\ HasDemographics(FileOf(r))
         /\ OnlySuspectHasStatus(FileOf(r), "awaited")
         /\ \A i \in SuspectIdx(FileOf(r)) : ~ForeignMah(FileOf(r).drugs[i].mah))
            => r.Validity = <<"Non-Valid (", "Product not Launched", ")">>

C4_Witness ==
    \E r \in Rows :
        /\ HasDemographics(FileOf(r))
        /\ OnlySuspectHasStatus(FileOf(r), "awaited")
        /\ \A i \in SuspectIdx(FileOf(r)) :
              ~ForeignMah(FileOf(r).drugs[i].mah) /\ FileOf(r).drugs[i].low = 20220101
        /\ FileOf(r).creationTime = 20220101
        /\ r.Validity = <<"Non-Valid (", "Product not Launched", ")">>

\* gender present, exactly one suspect drug, matching a product launched on
\* 2022-09-08, with the drug start date 2022-01-01
C5_Scenario(f) ==
    /\ f.gender_code \in {"1", "2"}
    /\ OnlySuspectHasStatus(f, "launched")
    /\ \A i \in SuspectIdx(f) :
          LAUNCH_INFO[ProductAt(f, i)][2] = 20220908 /\ f.drugs[i].low = 20220101

\* C5 as stated: in the scenario the Validity is exactly
\* "Non-Valid (Drug exposure prior to Launch)".
C5_Original ==
    \A r \in Rows :
        C5_Scenario(FileOf(r)) =>
            r.Validity = <<"Non-Valid (", "Drug exposure prior to Launch", ")">>

\* C5 amended: in the scenario, when the drug declares no manufacturer other
\* than the company, the Validity is "Non-Valid (Drug exposure prior to
\* Launch; <sources>)", the sources being a sorted comma-separated list of
\* Drug, Event, FRD, LRD that contains Drug.
C5_ExposureNamesDrug ==
    \A r \in Rows :
        (/\ C5_Scenario(FileOf(r))
         /\ \A i \in SuspectIdx(FileOf(r)) : ~ForeignMah(FileOf(r).drugs[i].mah))
            => \E S \in SUBSET {"Event", "FRD", "LRD"} :
                  r.Validity = ExposureVerdict({"Drug"} \cup S)

C5_Witness ==
    \E r \in Rows :
        /\ C5_Scenario(FileOf(r))
        /\ \A i \in SuspectIdx(FileOf(r)) : ~ForeignMah(FileOf(r).drugs[i].mah)
        /\ FileOf(r).reactions = <<>>
        /\ r.Validity = ExposureVerdict({"Drug", "LRD"})

\* C6: when no higher-priority rule applies and a matched product has a
\* known launch date, the case is flagged as exposure prior to launch
\* whenever the transmission date, the drug's start or stop date, or an
\* event's start or stop date precedes that launch date.
C6_AnyDateBeforeLaunchFlags ==
    \A r \in Rows :
        LET f == FileOf(r)
        IN  (/\ ~Rule1(f) /\ ~Rule2(f) /\ ~Rule3(f)
             /\ \E i \in MatchedIdx(f) :
                   LET L == KnownLaunchDate(ProductAt(f, i))
                   IN  /\ L # 0
                       /\ \/ Before(f.creationTime, L)
                          \/ Before(f.drugs[i].low, L)
                          \/ Before(f.drugs[i].high, L)
                          \/ \E j \in 1..Len(f.reactions) :
                                Before(f.reactions[j].low, L) \/ Before(f.reactions[j].high, L))
            => VerdictReason(r.Validity) = "Drug exposure prior to Launch; "

\* C8 as stated: with patient details, a suspect drug (matched or not) whose
\* declared manufacturer does not mention the company makes the verdict
\* Non-company product.
C8_Original ==
    \A r \in Rows :
        (/\ HasDemographics(FileOf(r))
         /\ \E i \in SuspectIdx(FileOf(r)) : ForeignMah(FileOf(r).drugs[i].mah))
            => VerdictReason(r.Validity) = "Non-company product"

\* C8 amended: with patient details, a suspect drug that matches the product
\* vocabulary and whose declared manufacturer (not an unknown token) does not
\* mention the company makes the verdict Non-company product.
C8_MatchedForeignMahNonCompany ==
    \A r \in Rows :
        (/\ HasDemographics(FileOf(r))
         /\ \E i \in MatchedIdx(FileOf(r)) : ForeignMah(FileOf(r).drugs[i].mah))
            => VerdictReason(r.Validity) = "Non-company product"

C8_Witness ==
    \E r \in Rows :
        /\ HasDemographics(FileOf(r))
        /\ \E i \in MatchedIdx(FileOf(r)) : ForeignMah(FileOf(r).drugs[i].mah)
        /\ VerdictReason(r.Validity) = "Non-company product"

ExpectReportable(f) ==
    /\ \E j \in 1..Len(f.reactions) : f.reactions[j].criteria # {}
    /\ \E i \in MatchedIdx(f) : ProductAt(f, i) \in category2_products

\* C9: Reportability is "NA" when the Validity is Non-Valid; otherwise it is
\* "Category 2, serious, reportable case" iff the case has an event with a
\* seriousness flag and a matched suspect product of category 2, and
\* "Non-Reportable" in every other case.
C9_Reportability ==
    \A r \in Rows :
        r.Reportability =
            IF IsNonValid(r.Validity) THEN "NA"
            ELSE IF ExpectReportable(FileOf(r)) THEN "Category 2, serious, reportable case"
            ELSE "Non-Reportable"

C9_Witness ==
    \E r \in Rows :
        /\ ~IsNonValid(r.Validity)
        /\ ExpectReportable(FileOf(r))
        /\ r.Reportability = "Category 2, serious, reportable case"

\* C10: a record whose Validity is Non-Valid has an empty Listedness.
C10_NonValidListednessEmpty ==
    \A r \in Rows : IsNonValid(r.Validity) => r.Listedness = <<>>

C10_Witness ==
    \E r \in Rows :
        /\ IsNonValid(r.Validity)
        /\ FileOf(r).reactions # <<>>
        /\ MatchedIdx(FileOf(r)) # {}
        /\ r.Listedness = <<>>


\* the earliest launch date among the strength tiers of product p
EarliestTier(p) ==
    CHOOSE m \in {LAUNCH_INFO[p][2][k] : k \in DOMAIN LAUNCH_INFO[p][2]} :
        \A k \in DOMAIN LAUNCH_INFO[p][2] : m <= LAUNCH_INFO[p][2][k]

\* an event date of f precedes the earliest tier of f's suspect product
EventBeforeEarliestTier(f) ==
    \E i \in SuspectIdx(f), j \in 1..Len(f.reactions) :
        \/ Before(f.reactions[j].low, EarliestTier(ProductAt(f, i)))
        \/ Before(f.reactions[j].high, EarliestTier(ProductAt(f, i)))

\* the verdict flags exposure prior to launch, with Event among the sources
FlagsEventExposure(v) ==
    VerdictReason(v) = "Drug exposure prior to Launch; " /\ "Event" \in Range(v)

\* C7 as stated: for a case whose suspect product is strength-gated (the
\* strength is never known), the launch date used is the earliest tier, and
\* an event date before it makes the verdict flag exposure prior to launch.
C7_Original ==
    \A r \in Rows :
        (r.SL_No = idx /\ OnlySuspectHasStatus(FileOf(r), "launched_by_strength")) =>
            /\ \A i \in SuspectIdx(FileOf(r)) :
                  work.earliest_launch_dt = EarliestTier(ProductAt(FileOf(r), i))
            /\ EventBeforeEarliestTier(FileOf(r)) => FlagsEventExposure(r.Validity)

\* C7 amended: for a case whose only suspect drug matches a strength-gated
\* product, the launch date used is the earliest tier; when moreover the case
\* has patient details and the drug declares no manufacturer other than the
\* company, an event date before that earliest date makes the verdict flag
\* exposure prior to launch.
C7_EarliestTierFallback ==
    \A r \in Rows :
        (r.SL_No = idx /\ OnlySuspectHasStatus(FileOf(r), "launched_by_strength")) =>
            /\ \A i \in SuspectIdx(FileOf(r)) :
                  work.earliest_launch_dt = EarliestTier(ProductAt(FileOf(r), i))
            /\ (/\ HasDemographics(FileOf(r))
                /\ \A i \in SuspectIdx(FileOf(r)) : ~ForeignMah(FileOf(r).drugs[i].mah)
                /\ EventBeforeEarliestTier(FileOf(r)))
                  => FlagsEventExposure(r.Validity)

C7_Witness ==
    \E r \in Rows :
        /\ r.SL_No = idx
        /\ OnlySuspectHasStatus(FileOf(r), "launched_by_strength")
        /\ HasDemographics(FileOf(r))
        /\ EventBeforeEarliestTier(FileOf(r))
        /\ work.earliest_launch_dt = 20250826
        /\ FlagsEventExposure(r.Validity)


(***************************************************************************)
(* Listedness.                                                             *)
(***************************************************************************)
\* the matched products of the case, as keys of the vocabulary
ProductsOf(f) == {ProductAt(f, i) : i \in MatchedIdx(f)}

\* the term of the i-th event before normalization: the mapped term when
\* the mapping has a row for the code, else the displayName
HasMappingRow(f, i) ==
    /\ mapping_df.present
    /\ \E k \in 1..Len(mapping_df.rows) : mapping_df.rows[k].code = f.reactions[i].code

MappedTerm(f, i) ==
    mapping_df.rows[CHOOSE k \in 1..Len(mapping_df.rows) :
                        mapping_df.rows[k].code = f.reactions[i].code].llt

TermOf(f, i) == IF HasMappingRow(f, i) THEN MappedTerm(f, i) ELSE f.reactions[i].displayName

\* the products the reference knows
ReferenceProducts == {NormalizedOf[listedness_file.rows[k].drug] : k \in 1..Len(listedness_file.rows)}

\* a Valid record of a case with events and a matched product
ListednessCase(r) ==
    /\ r.Validity = <<"Valid">>
    /\ FileOf(r).reactions # <<>>
    /\ ProductsOf(FileOf(r)) # {}

\* C11: when no listedness reference is supplied, every event of a Valid
\* case has the listedness "Reference not uploaded", never Listed or
\* Unlisted.
C11_NoReferenceNotUploaded ==
    \A r \in Rows :
        (ListednessCase(r) /\ ~listedness_file.present) =>
            /\ "Reference not uploaded" \in Range(r.Listedness)
            /\ "Listed" \notin Range(r.Listedness)
            /\ "Unlisted" \notin Range(r.Listedness)

\* C12: when a reference exists but knows none of the matched suspect
\* products of a Valid case, each event's listedness is "Reference not
\* updated", not "Unlisted".
C12_StaleReferenceNotUpdated ==
    \A r \in Rows :
        (/\ ListednessCase(r)
         /\ listedness_file.present
         /\ ProductsOf(FileOf(r)) \cap ReferenceProducts = {})
            => /\ "Reference not updated" \in Range(r.Listedness)
               /\ "Unlisted" \notin Range(r.Listedness)

\* the word reported for product p and the i-th event of f
WordFor(f, p, i) ==
    IF <<p, NormalizedOf[TermOf(f, i)]>> \in listedness_pairs THEN "Listed" ELSE "Unlisted"

EventWords(f, p, sep) ==
    Join([i \in 1..Len(f.reactions) |-> <<"Event ", ToString(i), ": ", WordFor(f, p, i)>>], sep)

\* the drug text shown for product p: the text of the first drug matching it
PrettyOf(f, p) ==
    f.drugs[CHOOSE i \in MatchedIdx(f) :
               ProductAt(f, i) = p /\ \A j \in MatchedIdx(f) : ProductAt(f, j) = p => i <= j].name

IsSubSeq(part, whole) ==
    \E k \in 0..(Len(whole) - Len(part)) : SubSeq(whole, k + 1, k + Len(part)) = part

\* C13: in a Valid case, each event is reported Listed for a matched product
\* iff the pair (normalized product, normalized event term) is in the
\* reference pair-set, and Unlisted otherwise: one line per event when the
\* case has one product, one line per product otherwise.
C13_ListedIffPairInReference ==
    \A r \in Rows :
        ListednessCase(r) =>
            IF Cardinality(ProductsOf(FileOf(r))) = 1
            THEN \A p \in ProductsOf(FileOf(r)) :
                    r.Listedness = EventWords(FileOf(r), p, "\n")
            ELSE \A p \in ProductsOf(FileOf(r)) :
                    IsSubSeq(<<PrettyOf(FileOf(r), p), " - ">> \o EventWords(FileOf(r), p, "; "),
                             r.Listedness)

\* a covered product with a listed event, and one with an unlisted event
C13_Witness ==
    \E r \in Rows :
        /\ ListednessCase(r)
        /\ ProductsOf(FileOf(r)) \subseteq ReferenceProducts
        /\ "Listed" \in Range(r.Listedness)
        /\ "Unlisted" \in Range(r.Listedness)


(***************************************************************************)
(* Batches.                                                                *)
(***************************************************************************)
\* the indexes up to k of the files that are (are not) well-formed, in order
WellFormedUpTo(k) == SelectSeq([i \in 1..k |-> i], LAMBDA i : uploaded_files[i].wellformed)

MalformedUpTo(k) == SelectSeq([i \in 1..k |-> i], LAMBDA i : ~uploaded_files[i].wellformed)

\* C14: a batch with malformed files never aborts: each malformed file is
\* skipped with an error of its own, the loop can always go on to the next
\* file, and the records are exactly one per well-formed file consumed, in
\* the order of the batch.
C14_MalformedFilesSkipped ==
    /\ [k \in 1..Len(all_rows_display) |-> all_rows_display[k].SL_No] = WellFormedUpTo(idx)
    /\ errors = MalformedUpTo(idx)
    /\ parsed_rows = Len(all_rows_display)
    /\ idx < Len(uploaded_files) => ENABLED Next

\* a finished batch whose malformed file was followed by a well-formed one
C14_Witness ==
    /\ idx = Len(uploaded_files)
    /\ \E i \in 1..idx, j \in 1..idx :
          i < j /\ ~uploaded_files[i].wellformed /\ uploaded_files[j].wellformed
    /\ Len(all_rows_display) = Len(WellFormedUpTo(idx))
    /\ errors # <<>>

\* C15: processing a file changes neither the references (listedness file
\* and pair-set, code/term mapping; the launch registry, the vocabulary, the
\* category 2 set and the competitor names are constants) nor the batch nor
\* a record already assembled, and the warnings, the comments and the
\* record of a well-formed file are those of that file alone.
C15_FrameAndFreshLocals ==
    [][ /\ listedness_file' = listedness_file
        /\ listedness_pairs' = listedness_pairs
        /\ mapping_df' = mapping_df
        /\ uploaded_files' = uploaded_files
        /\ SubSeq(all_rows_display', 1, Len(all_rows_display)) = all_rows_display
        /\ uploaded_files[idx'].wellformed =>
              /\ warnings' = warnings_of(uploaded_files[idx'], mapping_df)
              /\ comments' = comments_of(DisplayedDrugs(uploaded_files[idx']))
              /\ all_rows_display'[Len(all_rows_display')].Comment = Range(comments')
              /\ all_rows_display'[Len(all_rows_display')].Parsing_Warnings = warnings'
              /\ work'.case_products_norm = ProductsOf(uploaded_files[idx'])
      ]_vars

\* a file without comments and warnings processed after one that had both
C15_Witness ==
    /\ idx >= 2
    /\ Len(all_rows_display) >= 2
    /\ all_rows_display[Len(all_rows_display) - 1].Comment # {}
    /\ all_rows_display[Len(all_rows_display) - 1].Parsing_Warnings # <<>>
    /\ all_rows_display[Len(all_rows_display)].Comment = {}
    /\ all_rows_display[Len(all_rows_display)].Parsing_Warnings = <<>>
    /\ comments = <<>> /\ warnings = <<>>


(***************************************************************************)
(* Comments.                                                               *)
(***************************************************************************)
\* the case f without its lot numbers: the twin of f that differs only in
\* the anomalies the lots carry
WithoutLots(f) ==
    [f EXCEPT !.drugs = [i \in 1..Len(f.drugs) |-> [f.drugs[i] EXCEPT !.lot = ""]]]

\* the Validity the program gives the case f
ValidityOf(f) == Evaluate(1, f, listedness_pairs, mapping_df).row.Validity

ManualVerdict == <<"Kindly check comment and assess validity manually">>

\* C16 as stated: two cases that differ only in the anomaly comments
\* produced (a lot number, a lot naming a competitor, a licence number) have
\* the same Validity.
C16_Original ==
    \A r \in Rows : r.Validity = ValidityOf(WithoutLots(FileOf(r)))

\* C16 amended: the anomaly comments never make a case Non-Valid and never
\* change a Non-Valid verdict: of two cases that differ only in their lot
\* numbers, either both have the same Non-Valid verdict, or neither is
\* Non-Valid and each is Valid when it has no comment at all and "Kindly
\* check comment and assess validity manually" when it has one.
C16_CommentsOnlyAskForManualReview ==
    \A r \in Rows :
        IF IsNonValid(ValidityOf(WithoutLots(FileOf(r))))
        THEN r.Validity = ValidityOf(WithoutLots(FileOf(r)))
        ELSE r.Validity = (IF r.Comment = {} THEN <<"Valid">> ELSE ManualVerdict)

\* a case with a licence number in a lot, hence a licence-number comment,
\* whose twin without lots is Valid
C16_Witness ==
    \E r \in Rows :
        /\ \E i \in 1..Len(FileOf(r).drugs) : FileOf(r).drugs[i].lot = "PL 12345/6789"
        /\ \E c \in r.Comment : c[1] = "plz check product name as "
        /\ ValidityOf(WithoutLots(FileOf(r))) = <<"Valid">>
        /\ r.Validity = ManualVerdict


(***************************************************************************)
(* Dates.                                                                  *)
(***************************************************************************)
DaysInMonth == <<31, 28, 31, 30, 31, 30, 31, 31, 30, 31, 30, 31>>

LeapYear(y) == (y % 4 = 0 /\ y % 100 # 0) \/ y % 400 = 0

\* n, read as YYYYMMDD, is a day of the calendar
IsCalendarDate(n) ==
    /\ n \div 10000 >= 1
    /\ (n \div 100) % 100 \in 1..12
    /\ n % 100 >= 1
    /\ \/ n % 100 <= DaysInMonth[(n \div 100) % 100]
       \/ (n \div 100) % 100 = 2 /\ n % 100 = 29 /\ LeapYear(n \div 10000)

\* the first eight digits of a raw date of eight to ten digits
LeadingEight(raw) ==
    CHOOSE k \in {raw, raw \div 10, raw \div 100} : k \in 10000000..99999999

\* the precisions the claim speaks of: nothing or fewer than four digits,
\* four digits, six digits, eight digits or more
StatedPrecision(raw) ==
    \/ raw \in 0..9999
    \/ raw \in 100000..999999
    \/ raw >= 10000000

\* the date the claim gives a raw date of a stated precision, 0 for absent
ExpectedDate(raw) ==
    IF raw >= 10000000
    THEN (IF IsCalendarDate(LeadingEight(raw)) THEN LeadingEight(raw) ELSE 0)
    ELSE IF raw \in 100000..999999
         THEN (IF raw % 100 \in 1..12
               THEN CHOOSE n \in {raw * 100 + d : d \in 28..31} :
                        IsCalendarDate(n) /\ ~IsCalendarDate(n + 1)
               ELSE 0)
    ELSE IF raw \in 1000..9999 THEN raw * 10000 + 1231
    ELSE 0

\* the line of the report dates that starts with the label
DateLine(r, label) == {i \in 1..Len(r.Report_Date) : r.Report_Date[i][1] = label}

\* C17: the normalizer never fails the case and gives an eight-or-more-digit
\* raw date that calendar day, a six-digit one the last day of its month
\* (29 February in a leap year), a four-digit one 31 December, and nothing,
\* as date and as display, for an empty or unparseable one; checked on the
\* last receipt date (availabilityTime) and the first receipt date (the last
\* start date) of every processed case.
C17_DatesNormalized ==
    /\ idx < Len(uploaded_files) => ENABLED Next
    /\ \A r \in Rows :
          /\ StatedPrecision(LRD_raw(FileOf(r))) =>
                /\ work.lrd_raw_obj = ExpectedDate(LRD_raw(FileOf(r)))
                /\ ExpectedDate(LRD_raw(FileOf(r))) = 0 => DateLine(r, "LRD: ") = {}
          /\ StatedPrecision(FRD_raw(FileOf(r))) =>
                /\ work.frd_raw_obj = ExpectedDate(FRD_raw(FileOf(r)))
                /\ ExpectedDate(FRD_raw(FileOf(r))) = 0 => DateLine(r, "FRD: ") = {}

\* a case received in February of a leap year, dated 29 February
C17_Witness ==
    \E r \in Rows :
        /\ LRD_raw(FileOf(r)) = 202402
        /\ work.lrd_raw_obj = 20240229
        /\ \E i \in DateLine(r, "LRD: ") : r.Report_Date[i] = <<"LRD: ", "Feb", "-", "2024">>


(***************************************************************************)
(* Events without a mapping row.                                           *)
(***************************************************************************)
\* the i-th event of f has a code that the uploaded mapping has no row for
Unmapped(f, i) ==
    /\ mapping_df.present
    /\ f.reactions[i].code # ""
    /\ ~HasMappingRow(f, i)

NotFoundWarning(code) ==
    <<"LLT code ", code, " not found in mapping file - LLT/PT terms unavailable for this event.">>

\* the record of r's case was produced with every event processed and the
\* warning of each unmapped event on it
WarnedAndContinued(r) ==
    /\ Len(work.event_llts_norm) = Len(FileOf(r).reactions)
    /\ \A i \in 1..Len(FileOf(r).reactions) :
          Unmapped(FileOf(r), i) =>
             NotFoundWarning(FileOf(r).reactions[i].code) \in Range(r.Parsing_Warnings)

\* the listedness of a Valid case with one product looks the event up under
\* the term t
LooksUpUnder(r, i, t) ==
    (ListednessCase(r) /\ Cardinality(ProductsOf(FileOf(r))) = 1) =>
        \A p \in ProductsOf(FileOf(r)) :
            IsSubSeq(<<"Event ", ToString(i), ": ",
                       IF <<p, NormalizedOf[t]>> \in listedness_pairs THEN "Listed" ELSE "Unlisted">>,
                     r.Listedness)

NoPatientDetailsVerdict(r) ==
    Len(r.Validity) >= 2 /\ r.Validity[1] = "Non-Valid (" /\ r.Validity[2] = "No patient details"

\* C19: the case has a patient detail iff its composed patient summary is
\* not empty, so a case whose summary shows any field - a masked identifier,
\* a patient record number - is never Non-Valid for "No patient details".
C19_SummaryFieldsArePatientDetails ==
    \A r \in Rows :
        /\ work.has_any_patient_detail <=> r.Patient_Detail # <<>>
        /\ r.Patient_Detail # <<>> => ~NoPatientDetailsVerdict(r)


(***************************************************************************)
(* Product-name normalization.                                             *)
(***************************************************************************)
\* contains_company_product on a text given by its characters
MatchOfChars(cs) == FirstMatch(normalize_text(cs), company_products)

\* the product keys of the suspect drugs of f, each drug matched on its
\* normalized name
KeysOfNormalizedNames(f) ==
    {NormalizedOf[MatchOfChars(normalize_text(Chars(f.drugs[i].name)))] : i \in SuspectIdx(f)} \ {""}

\* C20: normalizing a drug name twice gives what normalizing it once gives,
\* and the product matched for the normalized name is the product the
\* program matched for the name itself, for every drug of every processed
\* case.
C20_NormalizationIdempotent ==
    \A r \in Rows :
        /\ \A i \in 1..Len(FileOf(r).drugs) :
              /\ normalize_text(normalize_text(Chars(FileOf(r).drugs[i].name)))
                    = normalize_text(Chars(FileOf(r).drugs[i].name))
              /\ MatchOfChars(normalize_text(Chars(FileOf(r).drugs[i].name)))
                    = MatchOfChars(Chars(FileOf(r).drugs[i].name))
        /\ work.case_products_norm = KeysOfNormalizedNames(FileOf(r))

\* a case whose drug name changes under normalization and matches a
\* two-word product, and one whose name loses a bracket and matches
C20_Witness ==
    \E r \in Rows :
        /\ Len(FileOf(r).drugs) = 2
        /\ FileOf(r).drugs[1].name = "Dimethyl  Fumarate (DMF)"
        /\ FileOf(r).drugs[2].name = "Apixaban(R)"
        /\ normalize_text(Chars("Dimethyl  Fumarate (DMF)")) # Chars("Dimethyl  Fumarate (DMF)")
        /\ normalize_text(Chars("Apixaban(R)")) = Chars("apixaban") \o <<" ", "r">>
        /\ work.case_products_norm = {"dimethyl fumarate", "apixaban"}


(***************************************************************************)
(* Listedness of several products.                                         *)
(***************************************************************************)
\* the arrangements of the set S in a sequence without repetition
ArrangementsOf(S) ==
    {o \in [1..Cardinality(S) -> S] : \A i, j \in 1..Cardinality(S) : o[i] = o[j] => i = j}

\* the entry of product p: the drug text shown for it, then its status for
\* every event
ProductEntry(f, p) == <<PrettyOf(f, p), " - ">> \o EventWords(f, p, "; ")

\* C21: in a Valid case with events, two or more distinct matched suspect
\* products give exactly one listedness entry per product, each with that
\* product's own Listed/Unlisted status for every event; exactly one matched
\* product gives one status per event.
C21_ListednessPerProduct ==
    \A r \in Rows :
        ListednessCase(r) =>
            IF Cardinality(ProductsOf(FileOf(r))) >= 2
            THEN \E o \in ArrangementsOf(ProductsOf(FileOf(r))) :
                    r.Listedness = Join([j \in 1..Len(o) |-> ProductEntry(FileOf(r), o[j])], "\n")
            ELSE \A p \in ProductsOf(FileOf(r)) :
                    r.Listedness = EventWords(FileOf(r), p, "\n")

\* a Valid case with two products and two events where the products differ
\* in their status for the same event
C21_Witness ==
    \E r \in Rows :
        /\ ListednessCase(r)
        /\ ProductsOf(FileOf(r)) = {"abiraterone", "tamsulosin"}
        /\ Len(FileOf(r).reactions) = 2
        /\ r.Listedness = <<"ABIRATERONE 250MG", " - ", "Event ", "1", ": ", "Listed", "; ",
                            "Event ", "2", ": ", "Unlisted", "\n",
                            "Tamsulosin", " - ", "Event ", "1", ": ", "Unlisted", "; ",
                            "Event ", "2", ": ", "Listed">>


(***************************************************************************)
(* Several products with different launch dates.                           *)
(***************************************************************************)
\* the matched suspect drugs of f that start before the launch of their
\* own product
StartsBeforeOwnLaunch(f) ==
    {i \in MatchedIdx(f) :
        /\ KnownLaunchDate(ProductAt(f, i)) # 0
        /\ Before(f.drugs[i].low, KnownLaunchDate(ProductAt(f, i)))}

\* C22: when no higher-priority rule applies, a matched suspect drug whose
\* start date precedes the launch date of its own product makes the case
\* Non-Valid for drug exposure prior to launch, whatever the launch dates
\* of the other products of the case.
C22_OwnLaunchDateDecides ==
    \A r \in Rows :
        (/\ ~Rule1(FileOf(r)) /\ ~Rule2(FileOf(r)) /\ ~Rule3(FileOf(r))
         /\ StartsBeforeOwnLaunch(FileOf(r)) # {})
            => VerdictReason(r.Validity) = "Drug exposure prior to Launch; "


(***************************************************************************)
(* Reachability of the vocabulary.                                         *)
(***************************************************************************)
\* C23: a suspect drug named exactly as an entry of the product vocabulary
\* is matched to that entry, never to an entry earlier in the vocabulary
\* order, so the product keys of such a case are the names of its drugs.
C23_EveryEntryMatchesItself ==
    \A r \in Rows :
        (\A i \in 1..Len(FileOf(r).drugs) : FileOf(r).drugs[i].name \in Range(company_products))
            => /\ \A i \in 1..Len(FileOf(r).drugs) :
                     matched_company_prod(FileOf(r).drugs[i]) = FileOf(r).drugs[i].name
               /\ work.case_products_norm =
                     {FileOf(r).drugs[i].name : i \in SuspectIdx(FileOf(r))}

====
